---- MODULE Spec2Model ----
(***************************************************************************)
(* Verification model of the resource-watch engine of yusiwen/myUtilities  *)
(* (package core/watcher): the bounded, versioned EventStore (event.go)    *)
(* and the WatchServer dispatcher with its ingest, population and consumer *)
(* goroutines.                                                             *)
(*                                                                         *)
(* Conventions.  Go maps are functions with a finite, growing DOMAIN; Go   *)
(* slices are sequences, and a slice index i of the source is position     *)
(* i + 1 here (the version index keeps the source's zero-based numbers).   *)
(* A resource version is the string fmt.Sprintf("%d-%d", ...) builds.      *)
(* Event.Timestamp is carried by the source but read by none of the        *)
(* modelled code, and is left out of the event records.                    *)
(***************************************************************************)
EXTENDS Integers, Sequences, FiniteSets, TLC

\* ------------------------------------------------------------------ bounds

\* Cap of a key's log: the maxSize argument of NewEventStore (1000 in
\* NewWatchServer), scaled down so that eviction happens.
MaxSize == 2

\* Number of AddEvent calls made directly on the store in SpecStore.
MaxAppends == 5

\* Capacity of a subscriber's queue: make(chan Event, 100) in Watch, scaled
\* down so that a queue fills up.
QueueCap == 1

\* Number of keys RegisterWatcher is called for with success.
MaxKeys == 1

\* Number of successful Watch calls (client ids handed out) in Spec.
MaxClients == 2

\* Number of events the observers emit, over all keys, in Spec.
MaxEmit == 2

\* The same two numbers in SpecSnapshot, where List returns three items.
SnapshotClients == 1
SnapshotEmit == 1

\* The same two numbers in SpecReplay, where the log evicts.
ReplayClients == 1
ReplayEmit == 3

\* The two-key scenario: registered keys, subscribers, emissions in all.
KeysKeys == 2
KeysClients == 1
KeysEmit == 2

\* Number of events the FileWatcher or GitWatcher sends in all: more than
\* its stream holds.
WatcherEmit == 12

\* Number of AddEvent calls of the concurrent callers of the store.
MaxLockedAppends == 3

\* Number of changes the FileWatcher of TestFileWatcher detects.
TestEmit == 5

\* The largest reading of the clock.
MaxClock == 2

\* Capacity of an observer's event stream: make(chan Event, 10).
EventChCap == 10

\* ------------------------------------------------------------- input sets

\* The resource keys in use.
Keys == {"k1", "k2"}

\* Readings of time.Now().UnixNano(): a wall clock, so two calls may read the
\* same value and a later call may read a smaller one.
Times == 1..MaxClock

\* Event types (event.go, lines 12-17).
Added == "ADDED"
Modified == "MODIFIED"
Deleted == "DELETED"
Error == "ERROR"

\* The event handed to the store by its n-th direct caller: the payload is
\* opaque to the store, and every call brings its own, so that two entries
\* of a log are told apart even when their versions agree.
EventTypes == <<Added, Modified, Deleted>>
StoreInput(n) ==
    [Type |-> EventTypes[(n % 3) + 1], Object |-> "p" \o ToString(n)]

\* The observers handed to RegisterWatcher.
Watchers == {"w1", "w2"}

\* What an observer's List returns: an error, or its items.
ListErr == "list failed"

\* What an observer's Watch returns when it fails.
WatchErr == "watch failed"

VARIABLES
    events,     \* EventStore.events: key -> sequence of stored events
    versions,   \* EventStore.versions: key -> (resourceVersion -> index)
    history,    \* history variable: key -> every entry ever appended, in order
    storeRet,   \* what the last direct call on the store returned
    watchers,   \* WatchServer.watchers: key -> observer
    clients,    \* WatchServer.clients: key -> ids of the subscribed queues
    nextClient, \* WatchServer.nextClient
    chans,      \* the queues Watch made: client id -> [buf, closed]
    rlock,      \* the ingest goroutines (keys) holding WatchServer.mu.RLock
    ingest,     \* startWatching goroutines: key -> [pc, event, pending]
    stream,     \* the observers' event streams: key -> [buf, closed]
    emitted,    \* history variable: key -> number of events its observer sent
    tasks,      \* population goroutines: client id -> [kind, key, pc, ...]
    received,   \* what each consumer has taken off its queue, in order
    dropped,    \* history variable: client id -> payloads the fan-out skipped
    panicked,   \* a goroutine panicked (send on a closed channel)
    apiRet,     \* what the last RegisterWatcher / Watch returned
    clock,      \* the last reading of time.Now() by the server's goroutines
    limits,     \* the scenario: how many keys, clients and emissions, and
                \* what List may return; never changes
    storeMu,    \* EventStore.mu: [writer, readers], the goroutines holding it
    calls,      \* the calls on the store in progress: goroutine -> [op, pc,
                \* key, event, rv, evs, ret], its position and its locals
    observer,   \* a FileWatcher or GitWatcher and the goroutine of its Watch:
                \* [pc, pending, stopChan, ctx]
    lastState,  \* FileWatcher.lastState: path -> FileState
    disk,       \* the files under FileWatcher.path now: what scanPath
                \* returns, [err, state]
    detect,     \* the call of detectChanges in progress: [pc, currentState,
                \* current, last, sent, scans], its position and its locals
    eventCh,    \* the channel FileWatcher.Watch made: [buf, closed]
    cmdRunner,  \* CommandRunner: [Commands, run, wg, output, done, clear],
                \* its list, where Run is, the WaitGroup and the channels
    display,    \* display: [cmdCnt, doneCnt, isHidden, prevLines, buffer]
    routines,   \* the goroutines Run starts: runCommands, refreshBuffer
                \* and update, each with its position and its locals
    backends,   \* OracleProxy.Backends: IsAvailable of each, in order
    pMutex,     \* DefaultProxy.Mutex: [writer, readers, waiting], the
                \* goroutines that hold it and those blocked in Lock
    currentIdx, \* DefaultProxy.CurrentIdx
    handlers,   \* the calls of getActiveBackend: handler -> [pc, i, ret]
    authCodes,  \* AuthServer.authCodes: code -> AuthorizationCode
    accessTokens, \* AuthServer.accessTokens: the tokens stored
    tokenReqs,  \* the token requests: request -> [pc, form, authCode,
                \* resp], its position, its form, its local and its answer
    authNow,    \* time.Now() of the mock OAuth server
    authFatal,  \* the Go runtime ended the process on a concurrent map
                \* access it detected
    codesMade   \* history variable: the codes authHandler has generated

storeVars == <<events, versions, history>>

\* The state of a FileWatcher comparing its scans.
fileVars == <<lastState, disk, detect, eventCh>>

\* The state of a CommandRunner, of an OracleProxy and of the mock OAuth
\* server.
runnerVars == <<cmdRunner, display, routines>>
proxyVars == <<backends, pMutex, currentIdx, handlers>>
authVars == <<authCodes, accessTokens, tokenReqs, authNow, authFatal,
              codesMade>>

\* The state of the components beside the event store and the server.
otherVars == <<fileVars, runnerVars, proxyVars, authVars>>

\* The state of the event store and the server.
serviceVars == <<events, versions, history, storeRet, watchers, clients,
                 nextClient, chans, rlock, ingest, stream, emitted, tasks,
                 received, dropped, panicked, apiRet, clock, limits, storeMu,
                 calls, observer>>

serverVars == <<watchers, clients, nextClient, chans, rlock, ingest, stream,
                emitted, tasks, received, dropped, panicked, apiRet, clock,
                limits, storeMu, calls, observer>>

vars == <<events, versions, history, storeRet, watchers, clients, nextClient,
          chans, rlock, ingest, stream, emitted, tasks, received, dropped,
          panicked, apiRet, clock, limits, storeMu, calls, observer, otherVars>>

\* ------------------------------------------------------------ EventStore

Min(a, b) == IF a <= b THEN a ELSE b

Range(seq) == {seq[i] : i \in 1..Len(seq)}

\* len(s.events[key]); a missing key reads as the nil slice.
LenEvents(key) == IF key \in DOMAIN events THEN Len(events[key]) ELSE 0

EventsOf(key) == IF key \in DOMAIN events THEN events[key] ELSE <<>>

VersionsOf(key) == IF key \in DOMAIN versions THEN versions[key] ELSE <<>>

\* fmt.Sprintf("%d-%d", time.Now().UnixNano(), len(s.events[key]))
FormatVersion(t, n) == ToString(t) \o "-" \o ToString(n)

\* The anonymous struct{Object; ResourceVersion} AddEvent stores (no tags).
StoreWrapper(obj, rv) ==
    [wrapper |-> "plain", Object |-> obj, ResourceVersion |-> rv]

\* The type assertion of the eviction branch: the stored Object is the
\* untagged struct AddEvent itself wrapped it in.
IsStoreWrapper(obj) == obj.wrapper = "plain"

\* events = events[1:]
DropNewest(evs) == SubSeq(evs, 1, Len(evs) - 1)
DropOldest(evs) == Tail(evs)

\* The index AddEvent records for the entry it appended: len(events) - 1.
IndexBeforeNew(evs) == Len(evs) - 2
IndexOfNew(evs) == Len(evs) - 1

\* delete(m, k) on a Go map.
MapDelete(m, k) == [x \in (DOMAIN m) \ {k} |-> m[x]]

\* m[k] = v on a Go map.
MapPut(m, k, v) == [x \in (DOMAIN m) \cup {k} |-> IF x = k THEN v ELSE m[x]]

\* The version AddEvent returns when the clock reads t.
AddEventVersion(key, t) == FormatVersion(t, LenEvents(key))

\* The entry AddEvent stores for `event`.
StoredEvent(event, rv) ==
    [Type |-> event.Type, Object |-> StoreWrapper(event.Object, rv)]

\* s.events[key] after AddEvent(key, event) with the clock reading t.
AddEventEvents(key, event, t) ==
    LET rv == AddEventVersion(key, t)
        old == EventsOf(key)
        kept == IF Len(old) >= MaxSize THEN DropOldest(old) ELSE old
    IN  Append(kept, StoredEvent(event, rv))

\* s.versions[key] after AddEvent(key, event) with the clock reading t.
AddEventVersions(key, event, t) ==
    LET rv == AddEventVersion(key, t)
        old == EventsOf(key)
        idx == VersionsOf(key)
        evicted == IF Len(old) >= MaxSize /\ IsStoreWrapper(old[1].Object)
                   THEN MapDelete(idx, old[1].Object.ResourceVersion)
                   ELSE idx
    IN  MapPut(evicted, rv, IndexOfNew(AddEventEvents(key, event, t)))

\* The state change of EventStore.AddEvent (one critical section of s.mu).
AddEvent(key, event, t) ==
    /\ events' = MapPut(events, key, AddEventEvents(key, event, t))
    /\ versions' = MapPut(versions, key, AddEventVersions(key, event, t))
    /\ history' = [history EXCEPT ![key] =
                      Append(@, StoredEvent(event, AddEventVersion(key, t)))]

ErrNoEvents == "no events for resource"
ErrNoVersions == "no versions for resource"
ErrVersionNotFound == "resourceVersion not found"

\* EventStore.GetEventsAfter: the ([]Event, error) it returns.
GetEventsAfterNothing(key, resourceVersion) == [err |-> "", events |-> <<>>]
GetEventsAfter(key, resourceVersion) ==
    IF key \notin DOMAIN events
    THEN [err |-> ErrNoEvents, events |-> <<>>]
    ELSE IF key \notin DOMAIN versions
    THEN [err |-> ErrNoVersions, events |-> <<>>]
    ELSE IF resourceVersion \notin DOMAIN versions[key]
    THEN [err |-> ErrVersionNotFound, events |-> <<>>]
    ELSE LET startIndex == versions[key][resourceVersion]
             evs == events[key]
         IN  IF startIndex >= Len(evs) - 1
             THEN [err |-> "", events |-> <<>>]
             ELSE [err |-> "", events |-> SubSeq(evs, startIndex + 2, Len(evs))]

\* ------------------------------------------- the store under direct calls

RECURSIVE SumLen(_, _)
SumLen(f, S) ==
    IF S = {} THEN 0
    ELSE LET k == CHOOSE x \in S : TRUE IN Len(f[k]) + SumLen(f, S \ {k})

TotalAppends == SumLen(history, Keys)

\* Every version AddEvent has returned so far, for any key.
IssuedVersions == UNION {{history[k][i].Object.ResourceVersion :
                            i \in 1..Len(history[k])} : k \in Keys}

NoStoreCall == [op |-> "none", key |-> "", rv |-> "", err |-> "",
                events |-> <<>>]

\* Unwatch returns nothing and is not recorded.
NoApiCall == [op |-> "none", key |-> "", id |-> 0, err |-> ""]

\* The goroutines that call the store at the same time (in the server:
\* startWatching, sendInitialState and sendHistoryEvents).
Goroutines == {"g1", "g2"}

\* A goroutine that is in no call on the store.
NoCall == [op |-> "none", pc |-> "", key |-> "",
           event |-> [Type |-> "", Object |-> ""],
           rv |-> "", evs |-> <<>>, ret |-> [err |-> "", events |-> <<>>]]

\* NewEventStore: both maps empty, the mutex free.
InitEventStore ==
    /\ events = <<>>
    /\ versions = <<>>
    /\ history = [k \in Keys |-> <<>>]
    /\ storeMu = [writer |-> "", readers |-> {}]
    /\ calls = [g \in Goroutines |-> NoCall]

\* NewFileWatcher / NewGitWatcher: stopChan open, Watch not called yet; the
\* context its caller will pass is live.
NewWatcher == [pc |-> "new", pending |-> 0, stopChan |-> "open",
               ctx |-> "live"]

\* NewFileWatcher, before Watch: no state scanned, no call of detectChanges,
\* no channel.
NoFileWatcher ==
    /\ lastState = <<>>
    /\ disk = [err |-> "", state |-> <<>>]
    /\ detect = [pc |-> "new", currentState |-> <<>>, current |-> {},
                 last |-> {}, sent |-> <<>>, scans |-> 0]
    /\ eventCh = [buf |-> <<>>, closed |-> FALSE]

\* No CommandRunner has been made.
NoRunner ==
    /\ cmdRunner = [Commands |-> <<>>, run |-> "none", wg |-> 0,
                    output |-> "open", done |-> "open", clear |-> "open"]
    /\ display = [cmdCnt |-> 0, doneCnt |-> 0, isHidden |-> TRUE,
                  prevLines |-> 0, buffer |-> <<>>]
    /\ routines = <<>>

\* No OracleProxy has been made.
NoProxy ==
    /\ backends = <<>>
    /\ pMutex = [writer |-> "", readers |-> {}, waiting |-> {}]
    /\ currentIdx = 0
    /\ handlers = <<>>

\* No AuthServer has been made.
NoAuthServer ==
    /\ authCodes = <<>>
    /\ accessTokens = {}
    /\ tokenReqs = <<>>
    /\ authNow = 0
    /\ authFatal = FALSE
    /\ codesMade = {}

\* The components beside the event store and the server are not in use.
OthersIdle == NoFileWatcher /\ NoRunner /\ NoProxy /\ NoAuthServer

\* NewWatchServer: no observer, no client, nextClient zero, nothing running.
NewWatchServer ==
    /\ watchers = <<>>
    /\ clients = <<>>
    /\ nextClient = 0
    /\ chans = <<>>
    /\ rlock = {}
    /\ ingest = <<>>
    /\ stream = <<>>
    /\ emitted = [k \in Keys |-> 0]
    /\ tasks = <<>>
    /\ received = <<>>
    /\ dropped = <<>>
    /\ panicked = FALSE
    /\ apiRet = NoApiCall
    /\ clock = 1
    /\ observer = NewWatcher

InitWatchServer == NewWatchServer /\ OthersIdle

NoLimits == [keys |-> 0, clients |-> 0, emit |-> 0, lists |-> {},
             replay |-> FALSE]

InitStore ==
    /\ InitEventStore
    /\ InitWatchServer
    /\ storeRet = NoStoreCall
    /\ limits = NoLimits

CallAddEvent(key, event, t) ==
    /\ TotalAppends < MaxAppends
    /\ AddEvent(key, event, t)
    /\ storeRet' = [op |-> "AddEvent", key |-> key,
                    rv |-> AddEventVersion(key, t), err |-> "",
                    events |-> <<>>]
    /\ UNCHANGED <<serverVars, otherVars>>

CallGetEventsAfter(key, rv) ==
    /\ storeRet' = [op |-> "GetEventsAfter", key |-> key, rv |-> rv,
                    err |-> GetEventsAfter(key, rv).err,
                    events |-> GetEventsAfter(key, rv).events]
    /\ UNCHANGED <<events, versions, history>>
    /\ UNCHANGED <<serverVars, otherVars>>

NextStore ==
    \/ \E key \in Keys, t \in Times :
          CallAddEvent(key, StoreInput(TotalAppends + 1), t)
    \/ \E key \in Keys, rv \in IssuedVersions \cup {"0-0"} :
          CallGetEventsAfter(key, rv)

SpecStore == InitStore /\ [][NextStore]_vars

\* ------------------------------------- the store under concurrent callers

\* s.mu.Lock() returns when no goroutine holds the mutex.
CanLock(g) == storeMu.writer = "" /\ storeMu.readers = {}

\* s.mu.RLock() returns when no goroutine holds the mutex for writing.
RLockAlways(g) == TRUE
CanRLock(g) == storeMu.writer = ""

\* The goroutines that are in a call of AddEvent.
AddEventCallers == {g \in Goroutines : calls[g].op = "AddEvent"}

\* Goroutine g calls AddEvent(key, event) and gets to s.mu.Lock().
AddEventBegin(g, key, event) ==
    /\ calls[g].op = "none"
    /\ TotalAppends + Cardinality(AddEventCallers) < MaxLockedAppends
    /\ calls' = [calls EXCEPT ![g] =
          [NoCall EXCEPT !.op = "AddEvent", !.pc = "Lock", !.key = key,
                         !.event = event]]
    /\ UNCHANGED <<storeVars, storeRet, storeMu>>
    /\ UNCHANGED <<watchers, clients, nextClient, chans, rlock, ingest,
                   stream, emitted, tasks, received, dropped, panicked,
                   apiRet, clock, limits, observer, otherVars>>

\* s.mu.Lock()
AddEventLock(g) ==
    /\ calls[g].op = "AddEvent"
    /\ calls[g].pc = "Lock"
    /\ CanLock(g)
    /\ storeMu' = [storeMu EXCEPT !.writer = g]
    /\ calls' = [calls EXCEPT ![g].pc = "version"]
    /\ UNCHANGED <<storeVars, storeRet>>
    /\ UNCHANGED <<watchers, clients, nextClient, chans, rlock, ingest,
                   stream, emitted, tasks, received, dropped, panicked,
                   apiRet, clock, limits, observer, otherVars>>

\* resourceVersion := fmt.Sprintf("%d-%d", time.Now().UnixNano(),
\*                                len(s.events[key]))
AddEventFormat(g, t) ==
    /\ calls[g].op = "AddEvent"
    /\ calls[g].pc = "version"
    /\ calls' = [calls EXCEPT
          ![g].rv = FormatVersion(t, LenEvents(calls[g].key)),
          ![g].pc = "events"]
    /\ UNCHANGED <<storeVars, storeRet, storeMu>>
    /\ UNCHANGED <<watchers, clients, nextClient, chans, rlock, ingest,
                   stream, emitted, tasks, received, dropped, panicked,
                   apiRet, clock, limits, observer, otherVars>>

\* if _, exists := s.events[key]; !exists { s.events[key] = make(...)
AddEventMakeEvents(g) ==
    /\ calls[g].op = "AddEvent"
    /\ calls[g].pc = "events"
    /\ IF calls[g].key \in DOMAIN events
       THEN /\ calls' = [calls EXCEPT ![g].pc = "evict"]
            /\ UNCHANGED events
       ELSE /\ calls' = [calls EXCEPT ![g].pc = "versions"]
            /\ events' = MapPut(events, calls[g].key, <<>>)
    /\ UNCHANGED <<versions, history, storeRet, storeMu>>
    /\ UNCHANGED <<watchers, clients, nextClient, chans, rlock, ingest,
                   stream, emitted, tasks, received, dropped, panicked,
                   apiRet, clock, limits, observer, otherVars>>

\* s.versions[key] = make(map[string]int) }
AddEventMakeVersions(g) ==
    /\ calls[g].op = "AddEvent"
    /\ calls[g].pc = "versions"
    /\ versions' = MapPut(versions, calls[g].key, <<>>)
    /\ calls' = [calls EXCEPT ![g].pc = "evict"]
    /\ UNCHANGED <<events, history, storeRet, storeMu>>
    /\ UNCHANGED <<watchers, clients, nextClient, chans, rlock, ingest,
                   stream, emitted, tasks, received, dropped, panicked,
                   apiRet, clock, limits, observer, otherVars>>

\* events := s.events[key]; if len(events) >= s.maxSize { the version of
\* events[0] is deleted from the index; events = events[1:] }
AddEventEvict(g) ==
    /\ calls[g].op = "AddEvent"
    /\ calls[g].pc = "evict"
    /\ LET key == calls[g].key
           evs == events[key]
       IN  IF Len(evs) >= MaxSize
           THEN /\ versions' =
                      IF IsStoreWrapper(evs[1].Object)
                      THEN MapPut(versions, key,
                              MapDelete(versions[key],
                                        evs[1].Object.ResourceVersion))
                      ELSE versions
                /\ calls' = [calls EXCEPT ![g].evs = DropOldest(evs),
                                          ![g].pc = "append"]
           ELSE /\ calls' = [calls EXCEPT ![g].evs = evs,
                                          ![g].pc = "append"]
                /\ UNCHANGED versions
    /\ UNCHANGED <<events, history, storeRet, storeMu>>
    /\ UNCHANGED <<watchers, clients, nextClient, chans, rlock, ingest,
                   stream, emitted, tasks, received, dropped, panicked,
                   apiRet, clock, limits, observer, otherVars>>

\* event.Object = struct{...}; events = append(events, event);
\* s.events[key] = events
AddEventAppend(g) ==
    /\ calls[g].op = "AddEvent"
    /\ calls[g].pc = "append"
    /\ LET entry == StoredEvent(calls[g].event, calls[g].rv)
           evs == Append(calls[g].evs, entry)
       IN  /\ events' = MapPut(events, calls[g].key, evs)
           /\ history' = [history EXCEPT ![calls[g].key] = Append(@, entry)]
           /\ calls' = [calls EXCEPT ![g].evs = evs, ![g].pc = "index"]
    /\ UNCHANGED <<versions, storeRet, storeMu>>
    /\ UNCHANGED <<watchers, clients, nextClient, chans, rlock, ingest,
                   stream, emitted, tasks, received, dropped, panicked,
                   apiRet, clock, limits, observer, otherVars>>

\* s.versions[key][resourceVersion] = len(events) - 1
AddEventIndex(g) ==
    /\ calls[g].op = "AddEvent"
    /\ calls[g].pc = "index"
    /\ versions' = MapPut(versions, calls[g].key,
                      MapPut(versions[calls[g].key], calls[g].rv,
                             IndexOfNew(calls[g].evs)))
    /\ calls' = [calls EXCEPT ![g].pc = "Unlock"]
    /\ UNCHANGED <<events, history, storeRet, storeMu>>
    /\ UNCHANGED <<watchers, clients, nextClient, chans, rlock, ingest,
                   stream, emitted, tasks, received, dropped, panicked,
                   apiRet, clock, limits, observer, otherVars>>

\* return resourceVersion, and the deferred s.mu.Unlock()
AddEventReturn(g) ==
    /\ calls[g].op = "AddEvent"
    /\ calls[g].pc = "Unlock"
    /\ storeMu' = [storeMu EXCEPT !.writer = ""]
    /\ storeRet' = [op |-> "AddEvent", key |-> calls[g].key,
                    rv |-> calls[g].rv, err |-> "", events |-> <<>>]
    /\ calls' = [calls EXCEPT ![g] = NoCall]
    /\ UNCHANGED storeVars
    /\ UNCHANGED <<watchers, clients, nextClient, chans, rlock, ingest,
                   stream, emitted, tasks, received, dropped, panicked,
                   apiRet, clock, limits, observer, otherVars>>

\* Goroutine g calls GetEventsAfter(key, rv) and gets to s.mu.RLock().
GetEventsAfterBegin(g, key, rv) ==
    /\ calls[g].op = "none"
    /\ calls' = [calls EXCEPT ![g] =
          [NoCall EXCEPT !.op = "GetEventsAfter", !.pc = "RLock",
                         !.key = key, !.rv = rv]]
    /\ UNCHANGED <<storeVars, storeRet, storeMu>>
    /\ UNCHANGED <<watchers, clients, nextClient, chans, rlock, ingest,
                   stream, emitted, tasks, received, dropped, panicked,
                   apiRet, clock, limits, observer, otherVars>>

\* s.mu.RLock()
GetEventsAfterRLock(g) ==
    /\ calls[g].op = "GetEventsAfter"
    /\ calls[g].pc = "RLock"
    /\ CanRLock(g)
    /\ storeMu' = [storeMu EXCEPT !.readers = @ \cup {g}]
    /\ calls' = [calls EXCEPT ![g].pc = "events"]
    /\ UNCHANGED <<storeVars, storeRet>>
    /\ UNCHANGED <<watchers, clients, nextClient, chans, rlock, ingest,
                   stream, emitted, tasks, received, dropped, panicked,
                   apiRet, clock, limits, observer, otherVars>>

\* events, exists := s.events[key]; if !exists { return nil, error }
GetEventsAfterEvents(g) ==
    /\ calls[g].op = "GetEventsAfter"
    /\ calls[g].pc = "events"
    /\ calls' = [calls EXCEPT ![g] =
          IF calls[g].key \in DOMAIN events
          THEN [@ EXCEPT !.evs = events[calls[g].key], !.pc = "versions"]
          ELSE [@ EXCEPT !.ret = [err |-> ErrNoEvents, events |-> <<>>],
                         !.pc = "RUnlock"]]
    /\ UNCHANGED <<storeVars, storeRet, storeMu>>
    /\ UNCHANGED <<watchers, clients, nextClient, chans, rlock, ingest,
                   stream, emitted, tasks, received, dropped, panicked,
                   apiRet, clock, limits, observer, otherVars>>

\* versions, exists := s.versions[key]; startIndex, exists :=
\* versions[resourceVersion]; and the slice of the events read before.
GetEventsAfterVersions(g) ==
    /\ calls[g].op = "GetEventsAfter"
    /\ calls[g].pc = "versions"
    /\ LET key == calls[g].key
           evs == calls[g].evs
           ret == IF key \notin DOMAIN versions
                  THEN [err |-> ErrNoVersions, events |-> <<>>]
                  ELSE IF calls[g].rv \notin DOMAIN versions[key]
                  THEN [err |-> ErrVersionNotFound, events |-> <<>>]
                  ELSE LET startIndex == versions[key][calls[g].rv]
                       IN  IF startIndex >= Len(evs) - 1
                           THEN [err |-> "", events |-> <<>>]
                           ELSE [err |-> "",
                                 events |-> SubSeq(evs, startIndex + 2,
                                                   Len(evs))]
       IN  calls' = [calls EXCEPT ![g].ret = ret, ![g].pc = "RUnlock"]
    /\ UNCHANGED <<storeVars, storeRet, storeMu>>
    /\ UNCHANGED <<watchers, clients, nextClient, chans, rlock, ingest,
                   stream, emitted, tasks, received, dropped, panicked,
                   apiRet, clock, limits, observer, otherVars>>

\* return, and the deferred s.mu.RUnlock()
GetEventsAfterReturn(g) ==
    /\ calls[g].op = "GetEventsAfter"
    /\ calls[g].pc = "RUnlock"
    /\ storeMu' = [storeMu EXCEPT !.readers = @ \ {g}]
    /\ storeRet' = [op |-> "GetEventsAfter", key |-> calls[g].key,
                    rv |-> calls[g].rv, err |-> calls[g].ret.err,
                    events |-> calls[g].ret.events]
    /\ calls' = [calls EXCEPT ![g] = NoCall]
    /\ UNCHANGED storeVars
    /\ UNCHANGED <<watchers, clients, nextClient, chans, rlock, ingest,
                   stream, emitted, tasks, received, dropped, panicked,
                   apiRet, clock, limits, observer, otherVars>>

\* The key the concurrent callers use: the mutex is the store's, not the
\* key's.
LockedKeys == {"k1"}

\* Two goroutines call AddEvent and GetEventsAfter on one store, each call
\* taking its steps whenever the scheduler lets it.
NextLocked ==
    \/ \E g \in Goroutines, key \in LockedKeys :
          AddEventBegin(g, key,
                        StoreInput(TotalAppends + Cardinality(AddEventCallers) + 1))
    \/ \E g \in Goroutines : AddEventLock(g)
    \/ \E g \in Goroutines, t \in Times : AddEventFormat(g, t)
    \/ \E g \in Goroutines : AddEventMakeEvents(g)
    \/ \E g \in Goroutines : AddEventMakeVersions(g)
    \/ \E g \in Goroutines : AddEventEvict(g)
    \/ \E g \in Goroutines : AddEventAppend(g)
    \/ \E g \in Goroutines : AddEventIndex(g)
    \/ \E g \in Goroutines : AddEventReturn(g)
    \/ \E g \in Goroutines, key \in LockedKeys,
             rv \in IssuedVersions \cup {"0-0"} :
          GetEventsAfterBegin(g, key, rv)
    \/ \E g \in Goroutines : GetEventsAfterRLock(g)
    \/ \E g \in Goroutines : GetEventsAfterEvents(g)
    \/ \E g \in Goroutines : GetEventsAfterVersions(g)
    \/ \E g \in Goroutines : GetEventsAfterReturn(g)

SpecLocked == InitStore /\ [][NextLocked]_vars

\* ------------------------------------------------------------ WatchServer

\* An Event.Object of dynamic type string that nobody wrapped: the text of
\* an Error event.
Unwrapped(text) ==
    [wrapper |-> "none", Object |-> text, ResourceVersion |-> ""]

\* WatchServer.addResourceVersion: a struct with json tags, another type
\* than the untagged struct of the store.
addResourceVersion(obj, version) ==
    [wrapper |-> "json", Object |-> obj, ResourceVersion |-> version]

\* make(chan Event, n): an empty, open channel.
ClosedChan == [buf |-> <<>>, closed |-> TRUE]
NewChan == [buf |-> <<>>, closed |-> FALSE]

\* A subscriber's queue has no room.
ChanFull(ch) == Len(ch.buf) >= QueueCap

\* ch <- e on a channel with room: e goes to the tail.
ChanEnqueueTwice(ch, e) == [ch EXCEPT !.buf = Append(Append(@, e), e)]
ChanEnqueue(ch, e) == [ch EXCEPT !.buf = Append(@, e)]

NoEvent == [Type |-> "", Object |-> Unwrapped("")]

ErrAlreadyRegistered == "watcher already registered"
ErrNoWatcher == "no watcher registered"

\* The payload and the event the observer of `key` emits as its n-th: every
\* emission has a payload of its own, which names its key and its rank.
EmitPayload(key, n) == key \o "#" \o ToString(n)
EmitInput(key, n) ==
    [Type |-> EventTypes[((n - 1) % 3) + 1], Object |-> EmitPayload(key, n)]

TotalEmitted == emitted["k1"] + emitted["k2"]

\* if _, exists := s.watchers[key]; exists
NeverRegistered(key) == FALSE
AlreadyRegistered(key) == key \in DOMAIN watchers

\* RegisterWatcher, under s.mu.Lock: rejects a registered key, else stores
\* the observer, makes the key's client map and starts startWatching.
RegisterWatcher(key, watcher) ==
    /\ ~panicked
    /\ rlock = {}
    /\ IF AlreadyRegistered(key)
       THEN /\ apiRet' = [op |-> "RegisterWatcher", key |-> key, id |-> 0,
                          err |-> ErrAlreadyRegistered]
            /\ UNCHANGED <<watchers, clients, ingest>>
       ELSE /\ Cardinality(DOMAIN watchers \cup {key}) <= limits.keys
            /\ watchers' = MapPut(watchers, key, watcher)
            /\ clients' = MapPut(clients, key, {})
            /\ ingest' = MapPut(ingest, key,
                                [pc |-> "watch", event |-> NoEvent,
                                 pending |-> {}])
            /\ apiRet' = [op |-> "RegisterWatcher", key |-> key, id |-> 0,
                          err |-> ""]
    /\ UNCHANGED <<storeVars, storeRet, nextClient, chans, rlock, stream,
                   emitted, tasks, received, dropped, panicked, clock, limits, storeMu, calls, observer, otherVars>>

\* The goroutine Watch starts for the new client.
NewSnapshotTask(key, resourceVersion) ==
    [kind |-> "sendInitialState", key |-> key, pc |-> "list",
     rv |-> resourceVersion, items |-> <<>>, event |-> NoEvent,
     listed |-> <<>>, timeouts |-> 0, err |-> "", at |-> emitted[key]]
NewTask(key, resourceVersion) ==
    [kind |-> IF resourceVersion # "" THEN "sendHistoryEvents"
              ELSE "sendInitialState",
     key |-> key,
     pc |-> IF resourceVersion # "" THEN "get" ELSE "list",
     rv |-> resourceVersion,
     items |-> <<>>,
     event |-> NoEvent,
     listed |-> <<>>,
     timeouts |-> 0,
     err |-> "",
     at |-> emitted[key]]

\* s.clients[key], read: a missing key reads as the nil map, without clients.
ClientsOf(key) == IF key \in DOMAIN clients THEN clients[key] ELSE {}

\* watcher, exists := s.watchers[key]
AnyWatcherExists(key) == TRUE
WatcherExists(key) == key \in DOMAIN watchers

\* s.nextClient++; clientID := s.nextClient
SameClientID(n) == IF n = 0 THEN 1 ELSE n
NextClientID(n) == n + 1

\* Watch, under s.mu.Lock: rejects an unregistered key, else takes the next
\* client id, makes the queue, registers it and starts the population task.
Watch(key, resourceVersion) ==
    /\ ~panicked
    /\ rlock = {}
    /\ IF ~WatcherExists(key)
       THEN /\ apiRet' = [op |-> "Watch", key |-> key, id |-> 0,
                          err |-> ErrNoWatcher]
            /\ UNCHANGED <<nextClient, chans, clients, tasks, received,
                           dropped>>
       ELSE /\ nextClient < limits.clients
            /\ nextClient' = NextClientID(nextClient)
            /\ chans' = MapPut(chans, NextClientID(nextClient), NewChan)
            /\ clients' = MapPut(clients, key,
                  ClientsOf(key) \cup {NextClientID(nextClient)})
            /\ tasks' = MapPut(tasks, NextClientID(nextClient),
                               NewTask(key, resourceVersion))
            /\ received' = MapPut(received, NextClientID(nextClient), <<>>)
            /\ dropped' = MapPut(dropped, NextClientID(nextClient), {})
            /\ apiRet' = [op |-> "Watch", key |-> key,
                          id |-> NextClientID(nextClient), err |-> ""]
    /\ UNCHANGED <<storeVars, storeRet, watchers, rlock, ingest, stream,
                   emitted, panicked, clock, limits, storeMu, calls, observer, otherVars>>

\* delete(clients, clientID)
KeepClient(ids, clientID) == ids
DeleteClient(ids, clientID) == ids \ {clientID}

\* Unwatch, under s.mu.Lock: closes and removes the queue if it is there.
Unwatch(key, clientID) ==
    /\ ~panicked
    /\ rlock = {}
    /\ IF key \in DOMAIN clients /\ clientID \in clients[key]
       THEN /\ panicked' = chans[clientID].closed
            /\ chans' = [chans EXCEPT ![clientID].closed = TRUE]
            /\ clients' = [clients EXCEPT ![key] = DeleteClient(@, clientID)]
       ELSE UNCHANGED <<panicked, chans, clients>>
    /\ UNCHANGED <<storeVars, storeRet, watchers, nextClient, rlock, ingest,
                   stream, emitted, tasks, received, dropped, apiRet, clock, limits, storeMu, calls, observer, otherVars>>

\* startWatching: watcher.Watch(ctx) fails and the goroutine returns.
startWatchingWatchFails(key) ==
    /\ ~panicked
    /\ key \in DOMAIN ingest
    /\ ingest[key].pc = "watch"
    /\ ingest' = [ingest EXCEPT ![key].pc = "stopped"]
    /\ UNCHANGED <<storeVars, storeRet, watchers, clients, nextClient, chans,
                   rlock, stream, emitted, tasks, received, dropped, panicked,
                   apiRet, clock, limits, storeMu, calls, observer, otherVars>>

\* startWatching: watcher.Watch(ctx) returns the observer's event stream.
startWatchingWatch(key) ==
    /\ ~panicked
    /\ key \in DOMAIN ingest
    /\ ingest[key].pc = "watch"
    /\ stream' = MapPut(stream, key, NewChan)
    /\ ingest' = [ingest EXCEPT ![key].pc = "recv"]
    /\ UNCHANGED <<storeVars, storeRet, watchers, clients, nextClient, chans,
                   rlock, emitted, tasks, received, dropped, panicked, apiRet, clock, limits, storeMu, calls, observer, otherVars>>

\* The observer's goroutine sends its next event on its stream.
ObserverEmit(key) ==
    /\ ~panicked
    /\ key \in DOMAIN stream
    /\ ~stream[key].closed
    /\ Len(stream[key].buf) < EventChCap
    /\ TotalEmitted < limits.emit
    /\ stream' = [stream EXCEPT ![key].buf =
                     Append(@, EmitInput(key, emitted[key] + 1))]
    /\ emitted' = [emitted EXCEPT ![key] = @ + 1]
    /\ UNCHANGED <<storeVars, storeRet, watchers, clients, nextClient, chans,
                   rlock, ingest, tasks, received, dropped, panicked, apiRet, clock, limits, storeMu, calls, observer, otherVars>>

\* The observer's goroutine returns: defer close(eventCh).
ObserverClose(key) ==
    /\ ~panicked
    /\ key \in DOMAIN stream
    /\ ~stream[key].closed
    /\ stream' = [stream EXCEPT ![key].closed = TRUE]
    /\ UNCHANGED <<storeVars, storeRet, watchers, clients, nextClient, chans,
                   rlock, ingest, emitted, tasks, received, dropped, panicked,
                   apiRet, clock, limits, storeMu, calls, observer, otherVars>>

\* startWatching: the stream is closed and drained, the range loop ends.
startWatchingExit(key) ==
    /\ ~panicked
    /\ key \in DOMAIN ingest
    /\ ingest[key].pc = "recv"
    /\ stream[key].buf = <<>>
    /\ stream[key].closed
    /\ ingest' = [ingest EXCEPT ![key].pc = "stopped"]
    /\ UNCHANGED <<storeVars, storeRet, watchers, clients, nextClient, chans,
                   rlock, stream, emitted, tasks, received, dropped, panicked,
                   apiRet, clock, limits, storeMu, calls, observer, otherVars>>

\* ctx, cancel := context.WithCancel(...); defer cancel(): the steps of the
\* server that cancel the context startWatching handed to watcher.Watch are
\* the two returns of startWatching.
CancelIngest(key) == startWatchingWatchFails(key) \/ startWatchingExit(key)

\* for event := range eventCh: the event the loop takes off the stream.
StreamNewest(buf) == buf[Len(buf)]
StreamNext(buf) == Head(buf)

\* for _, clientCh := range s.clients[key]: the queues the fan-out visits.
FanOutAllKeys(key) == UNION {clients[k] : k \in DOMAIN clients}
FanOutFirstClient(key) ==
    IF clients[key] = {} THEN {} ELSE {CHOOSE c \in clients[key] : TRUE}
FanOutClients(key) == clients[key]

\* startWatching: for event := range eventCh takes the next event off the
\* stream, then s.mu.RLock(), AddEvent, addResourceVersion; the range over
\* s.clients[key] is about to start.  (The receive touches the stream and
\* the goroutine's own variable only, so it is taken together with the
\* critical section that follows it.)
startWatchingStore(key, t) ==
    /\ ~panicked
    /\ key \in DOMAIN ingest
    /\ ingest[key].pc = "recv"
    /\ stream[key].buf # <<>>
    /\ stream' = [stream EXCEPT ![key].buf = Tail(@)]
    /\ rlock' = rlock \cup {key}
    /\ AddEvent(key, StreamNext(stream[key].buf), t)
    /\ ingest' = [ingest EXCEPT
          ![key].pc = "send",
          ![key].event = [Type |-> StreamNext(stream[key].buf).Type,
                          Object |-> addResourceVersion(
                                        StreamNext(stream[key].buf).Object,
                                        AddEventVersion(key, t))],
          ![key].pending = FanOutClients(key)]
    /\ clock' = t
    /\ UNCHANGED <<storeRet, watchers, clients, nextClient, chans, emitted,
                   tasks, received, dropped, panicked, apiRet, limits, storeMu, calls, observer, otherVars>>

\* The clients the range loop still has to visit after visiting c, whose
\* queue was full or not.
StopAtFullQueue(pending, c, full) == IF full THEN {} ELSE pending \ {c}
RestOfFanOut(pending, c, full) == pending \ {c}

\* startWatching: one iteration of the range over s.clients[key] (in the
\* map's order, which is any order): select { case clientCh <- event:
\* default: }.
startWatchingSend(key, c) ==
    /\ ~panicked
    /\ key \in DOMAIN ingest
    /\ ingest[key].pc = "send"
    /\ c \in ingest[key].pending
    /\ IF chans[c].closed
       THEN /\ panicked' = TRUE
            /\ UNCHANGED <<chans, dropped>>
       ELSE IF ~ChanFull(chans[c])
       THEN /\ chans' = [chans EXCEPT ![c] = ChanEnqueue(@, ingest[key].event)]
            /\ UNCHANGED <<dropped, panicked>>
       ELSE /\ dropped' = [dropped EXCEPT
                              ![c] = @ \cup {ingest[key].event.Object.Object}]
            /\ UNCHANGED <<chans, panicked>>
    /\ ingest' = [ingest EXCEPT ![key].pending =
                     RestOfFanOut(@, c, ChanFull(chans[c]))]
    /\ UNCHANGED <<storeVars, storeRet, watchers, clients, nextClient, rlock,
                   stream, emitted, tasks, received, apiRet, clock, limits, storeMu, calls, observer, otherVars>>

\* s.mu.RUnlock() by the startWatching goroutine of key.
RUnlockSkipped(held, key) == held
RUnlock(held, key) == held \ {key}

\* startWatching: the range is over, s.mu.RUnlock(), back to the stream.
startWatchingUnlock(key) ==
    /\ ~panicked
    /\ key \in DOMAIN ingest
    /\ ingest[key].pc = "send"
    /\ ingest[key].pending = {}
    /\ rlock' = RUnlock(rlock, key)
    /\ ingest' = [ingest EXCEPT ![key].pc = "recv", ![key].event = NoEvent]
    /\ UNCHANGED <<storeVars, storeRet, watchers, clients, nextClient, chans,
                   stream, emitted, tasks, received, dropped, panicked, apiRet, clock, limits, storeMu, calls, observer, otherVars>>

\* sendInitialState: watcher.List() fails; the Error event is to be sent.
sendInitialStateListFails(id) ==
    /\ ~panicked
    /\ id \in DOMAIN tasks
    /\ tasks[id].pc = "list"
    /\ tasks' = [tasks EXCEPT
          ![id].pc = "error",
          ![id].err = ListErr,
          ![id].event = [Type |-> Error, Object |-> Unwrapped(ListErr)]]
    /\ UNCHANGED <<storeVars, storeRet, watchers, clients, nextClient, chans,
                   rlock, ingest, stream, emitted, received, dropped,
                   panicked, apiRet, clock, limits, storeMu, calls, observer, otherVars>>

\* sendInitialState: watcher.List() returns its items.
sendInitialStateList(id, resources) ==
    /\ ~panicked
    /\ id \in DOMAIN tasks
    /\ tasks[id].pc = "list"
    /\ tasks' = [tasks EXCEPT
          ![id].pc = IF resources = <<>> THEN "done" ELSE "add",
          ![id].items = resources,
          ![id].listed = resources]
    /\ UNCHANGED <<storeVars, storeRet, watchers, clients, nextClient, chans,
                   rlock, ingest, stream, emitted, received, dropped,
                   panicked, apiRet, clock, limits, storeMu, calls, observer, otherVars>>

\* for _, obj := range resources: the item the loop is at.
LastResource(items) == items[Len(items)]
NextResource(items) == Head(items)

\* sendInitialState: the next item becomes an ADDED event, is stored by
\* AddEvent and gets its version.
sendInitialStateAdd(id, t) ==
    /\ ~panicked
    /\ id \in DOMAIN tasks
    /\ tasks[id].pc = "add"
    /\ AddEvent(tasks[id].key,
                [Type |-> Added, Object |-> NextResource(tasks[id].items)], t)
    /\ tasks' = [tasks EXCEPT
          ![id].pc = "offer",
          ![id].items = Tail(@),
          ![id].event = [Type |-> Added,
                         Object |-> addResourceVersion(
                                       NextResource(tasks[id].items),
                                       AddEventVersion(tasks[id].key, t))]]
    /\ clock' = t
    /\ UNCHANGED <<storeRet, watchers, clients, nextClient, chans, rlock,
                   ingest, stream, emitted, received, dropped, panicked,
                   apiRet, limits, storeMu, calls, observer, otherVars>>

\* Where a population task goes after an item was sent or skipped: the next
\* resource of sendInitialState, the next event of sendHistoryEvents.
TaskAfterItem(task) ==
    IF task.items = <<>>
    THEN [task EXCEPT !.pc = "done", !.event = NoEvent]
    ELSE IF task.kind = "sendInitialState"
    THEN [task EXCEPT !.pc = "add", !.event = NoEvent]
    ELSE [task EXCEPT !.pc = "offer", !.event = Head(task.items),
                      !.items = Tail(task.items)]

\* select { case ch <- event: ... }: the send goes through when the queue
\* has room, and panics when the queue was closed.
populationSend(id) ==
    /\ ~panicked
    /\ id \in DOMAIN tasks
    /\ tasks[id].pc = "offer"
    /\ chans[id].closed \/ ~ChanFull(chans[id])
    /\ IF chans[id].closed
       THEN /\ panicked' = TRUE
            /\ UNCHANGED <<chans, tasks>>
       ELSE /\ chans' = [chans EXCEPT ![id] = ChanEnqueue(@, tasks[id].event)]
            /\ tasks' = [tasks EXCEPT ![id] = TaskAfterItem(@)]
            /\ UNCHANGED panicked
    /\ UNCHANGED <<storeVars, storeRet, watchers, clients, nextClient, rlock,
                   ingest, stream, emitted, received, dropped, apiRet, clock, limits, storeMu, calls, observer, otherVars>>

\* select { ... case <-time.After(100 * time.Millisecond): }: the queue
\* stayed full for 100ms and the item is skipped.
populationTimeout(id) ==
    /\ ~panicked
    /\ id \in DOMAIN tasks
    /\ tasks[id].pc = "offer"
    /\ ~chans[id].closed
    /\ ChanFull(chans[id])
    /\ tasks' = [tasks EXCEPT
          ![id] = TaskAfterItem([@ EXCEPT !.timeouts = @ + 1])]
    /\ UNCHANGED <<storeVars, storeRet, watchers, clients, nextClient, chans,
                   rlock, ingest, stream, emitted, received, dropped,
                   panicked, apiRet, clock, limits, storeMu, calls, observer, otherVars>>

\* ch <- Event{Type: Error, ...}: a plain send, which waits for room and
\* panics when the queue was closed.
populationSendError(id) ==
    /\ ~panicked
    /\ id \in DOMAIN tasks
    /\ tasks[id].pc = "error"
    /\ chans[id].closed \/ ~ChanFull(chans[id])
    /\ IF chans[id].closed
       THEN /\ panicked' = TRUE
            /\ UNCHANGED <<chans, tasks>>
       ELSE /\ chans' = [chans EXCEPT ![id] = ChanEnqueue(@, tasks[id].event)]
            /\ tasks' = [tasks EXCEPT ![id].pc = "done",
                                      ![id].event = NoEvent]
            /\ UNCHANGED panicked
    /\ UNCHANGED <<storeVars, storeRet, watchers, clients, nextClient, rlock,
                   ingest, stream, emitted, received, dropped, apiRet, clock, limits, storeMu, calls, observer, otherVars>>

\* if err != nil, on what GetEventsAfter returned.
NeverFailed(r) == FALSE
Failed(r) == r.err # ""

\* sendHistoryEvents: GetEventsAfter, then the Error event or the events.
sendHistoryEventsGet(id) ==
    /\ ~panicked
    /\ id \in DOMAIN tasks
    /\ tasks[id].pc = "get"
    /\ LET r == GetEventsAfter(tasks[id].key, tasks[id].rv) IN
       tasks' = [tasks EXCEPT ![id] =
          IF Failed(r)
          THEN [@ EXCEPT !.pc = "error",
                         !.err = r.err,
                         !.event = [Type |-> Error,
                                    Object |-> Unwrapped(r.err)]]
          ELSE TaskAfterItem([@ EXCEPT !.items = r.events,
                                       !.listed = r.events])]
    /\ UNCHANGED <<storeVars, storeRet, watchers, clients, nextClient, chans,
                   rlock, ingest, stream, emitted, received, dropped,
                   panicked, apiRet, clock, limits, storeMu, calls, observer, otherVars>>

\* The consumer of queue id takes the next event off it (for event := range
\* ch); a closed queue still hands out what it holds.
ConsumerReceive(id) ==
    /\ ~panicked
    /\ id \in DOMAIN chans
    /\ chans[id].buf # <<>>
    /\ received' = [received EXCEPT ![id] = Append(@, Head(chans[id].buf))]
    /\ chans' = [chans EXCEPT ![id].buf = Tail(@)]
    /\ UNCHANGED <<storeVars, storeRet, watchers, clients, nextClient, rlock,
                   ingest, stream, emitted, tasks, dropped, panicked, apiRet, clock, limits, storeMu, calls, observer, otherVars>>

\* The checkpoints a caller of Watch may hold for key: none, a version the
\* store has issued for the key, or one it never issued.
Checkpoints(key) ==
    IF limits.replay
    THEN {""} \cup {history[key][i].Object.ResourceVersion :
                      i \in 1..Len(history[key])} \cup {"0-0"}
    ELSE {""}

\* The readings time.Now().UnixNano() may give next: a wall clock, which
\* may stand still between two readings and may be set back.
ClockReadings == Times

\* The scenarios of Spec: one subscriber less than MaxClients, who may ask
\* for a replay and whose List returns at most one item, with MaxEmit
\* emissions; or MaxClients subscribers without checkpoint, whose List
\* returns nothing, with one emission less.
Init ==
    /\ InitEventStore
    /\ InitWatchServer
    /\ storeRet = NoStoreCall
    /\ limits \in {[keys |-> MaxKeys, clients |-> MaxClients - 1,
                     emit |-> MaxEmit, lists |-> {<<>>, <<"a">>},
                     replay |-> TRUE],
                    [keys |-> MaxKeys, clients |-> MaxClients,
                     emit |-> MaxEmit - 1, lists |-> {<<>>},
                     replay |-> FALSE]}

\* The scenario of SpecSnapshot: List returns the three items a, b, c.
InitSnapshot ==
    /\ InitEventStore
    /\ InitWatchServer
    /\ storeRet = NoStoreCall
    /\ limits = [keys |-> MaxKeys, clients |-> SnapshotClients,
                 emit |-> SnapshotEmit, lists |-> {<<"a", "b", "c">>},
                 replay |-> TRUE]

\* The scenario of SpecReplay: every subscriber comes with a checkpoint, and
\* the observer emits more events than the log holds, so that the
\* checkpoint may be one that was evicted.
InitReplay ==
    /\ InitEventStore
    /\ InitWatchServer
    /\ storeRet = NoStoreCall
    /\ limits = [keys |-> MaxKeys, clients |-> ReplayClients,
                 emit |-> ReplayEmit, lists |-> {}, replay |-> TRUE]

\* The server treats keys alike and observers alike: the keys are registered
\* in one order, and the observer registered for a key is w1 (any observer
\* may be offered for a key that is already registered).
Next ==
    \/ \E key \in Keys, watcher \in Watchers :
          /\ key \in DOMAIN watchers \/ watcher = "w1"
          /\ key = "k1" \/ "k1" \in DOMAIN watchers
          /\ RegisterWatcher(key, watcher)
    \/ \E key \in Keys : \E rv \in Checkpoints(key) : Watch(key, rv)
    \/ \E key \in Keys, id \in 1..limits.clients : Unwatch(key, id)
    \/ \E key \in Keys : startWatchingWatchFails(key)
    \/ \E key \in Keys : startWatchingWatch(key)
    \/ \E key \in Keys : ObserverEmit(key)
    \/ \E key \in Keys : ObserverClose(key)
    \/ \E key \in Keys : startWatchingExit(key)
    \/ \E key \in Keys, t \in ClockReadings : startWatchingStore(key, t)
    \/ \E key \in Keys, c \in 1..limits.clients : startWatchingSend(key, c)
    \/ \E key \in Keys : startWatchingUnlock(key)
    \/ \E id \in 1..limits.clients : sendInitialStateListFails(id)
    \/ \E id \in 1..limits.clients, r \in limits.lists :
          sendInitialStateList(id, r)
    \/ \E id \in 1..limits.clients, t \in ClockReadings :
          sendInitialStateAdd(id, t)
    \/ \E id \in 1..limits.clients : populationSend(id)
    \/ \E id \in 1..limits.clients : populationTimeout(id)
    \/ \E id \in 1..limits.clients : populationSendError(id)
    \/ \E id \in 1..limits.clients : sendHistoryEventsGet(id)
    \/ \E id \in 1..limits.clients : ConsumerReceive(id)

Spec == Init /\ [][Next]_vars

SpecSnapshot == InitSnapshot /\ [][Next]_vars

\* The steps of Next without those of sendInitialState.
NextReplay ==
    \/ \E key \in Keys, watcher \in Watchers :
          /\ key \in DOMAIN watchers \/ watcher = "w1"
          /\ key = "k1" \/ "k1" \in DOMAIN watchers
          /\ RegisterWatcher(key, watcher)
    \/ \E key \in Keys : \E rv \in Checkpoints(key) \ {""} : Watch(key, rv)
    \/ \E key \in Keys, id \in 1..limits.clients : Unwatch(key, id)
    \/ \E key \in Keys : startWatchingWatchFails(key)
    \/ \E key \in Keys : startWatchingWatch(key)
    \/ \E key \in Keys : ObserverEmit(key)
    \/ \E key \in Keys : ObserverClose(key)
    \/ \E key \in Keys : startWatchingExit(key)
    \/ \E key \in Keys, t \in ClockReadings : startWatchingStore(key, t)
    \/ \E key \in Keys, c \in 1..limits.clients : startWatchingSend(key, c)
    \/ \E key \in Keys : startWatchingUnlock(key)
    \/ \E id \in 1..limits.clients : sendHistoryEventsGet(id)
    \/ \E id \in 1..limits.clients : populationSend(id)
    \/ \E id \in 1..limits.clients : populationTimeout(id)
    \/ \E id \in 1..limits.clients : populationSendError(id)
    \/ \E id \in 1..limits.clients : ConsumerReceive(id)

SpecReplay == InitReplay /\ [][NextReplay]_vars

\* -------------------------------------------- the population goroutines

\* A step of the goroutine Watch started for client id: sendInitialState or
\* sendHistoryEvents.
PopulationStep(id) ==
    \/ sendInitialStateListFails(id)
    \/ \E r \in limits.lists : sendInitialStateList(id, r)
    \/ \E t \in ClockReadings : sendInitialStateAdd(id, t)
    \/ populationSend(id)
    \/ populationTimeout(id)
    \/ populationSendError(id)
    \/ sendHistoryEventsGet(id)

\* Spec with its population goroutines scheduled: List and GetEventsAfter
\* come back, a send that has room goes through, a timer that runs out
\* fires.  The consumers read when they like.
SpecPopulation ==
    /\ Init
    /\ [][Next]_vars
    /\ \A id \in 1..MaxClients : WF_vars(PopulationStep(id))

\* ------------------------------------------------------------- two keys

\* The scenario of SpecKeys: both keys get an observer, each subscriber
\* picks its key, List returns nothing.
InitKeys ==
    /\ InitEventStore
    /\ InitWatchServer
    /\ storeRet = NoStoreCall
    /\ limits = [keys |-> KeysKeys, clients |-> KeysClients,
                 emit |-> KeysEmit, lists |-> {<<>>}, replay |-> FALSE]

\* The steps of Next without those that fill a queue from List items or
\* from the log.
NextKeys ==
    \/ \E key \in Keys, watcher \in Watchers :
          /\ key \in DOMAIN watchers \/ watcher = "w1"
          /\ key = "k1" \/ "k1" \in DOMAIN watchers
          /\ RegisterWatcher(key, watcher)
    \/ \E key \in Keys : Watch(key, "")
    \/ \E key \in Keys, id \in 1..limits.clients : Unwatch(key, id)
    \/ \E key \in Keys : startWatchingWatchFails(key)
    \/ \E key \in Keys : startWatchingWatch(key)
    \/ \E key \in Keys : ObserverEmit(key)
    \/ \E key \in Keys : ObserverClose(key)
    \/ \E key \in Keys : startWatchingExit(key)
    \/ \E key \in Keys, t \in ClockReadings : startWatchingStore(key, t)
    \/ \E key \in Keys, c \in 1..limits.clients : startWatchingSend(key, c)
    \/ \E key \in Keys : startWatchingUnlock(key)
    \/ \E id \in 1..limits.clients, r \in limits.lists :
          sendInitialStateList(id, r)
    \/ \E id \in 1..limits.clients : ConsumerReceive(id)

SpecKeys == InitKeys /\ [][NextKeys]_vars

\* ------------------------------------------- FileWatcher and GitWatcher

\* The key under which the stream of the watcher is kept.
WatcherKey == "k1"

\* FileWatcher.Watch / GitWatcher.Watch: the first scan (initRepo,
\* getRemoteHash) fails and Watch returns nil and the error.
WatcherWatchFails ==
    /\ observer.pc = "new"
    /\ observer' = [observer EXCEPT !.pc = "failed"]
    /\ UNCHANGED <<storeVars, storeRet, watchers, clients, nextClient, chans,
                   rlock, ingest, stream, emitted, tasks, received, dropped,
                   panicked, apiRet, clock, limits, storeMu, calls, otherVars>>

\* FileWatcher.Watch / GitWatcher.Watch: eventCh := make(chan Event, 10),
\* the goroutine is started and eventCh returned.
WatcherWatch ==
    /\ observer.pc = "new"
    /\ stream' = MapPut(stream, WatcherKey, NewChan)
    /\ observer' = [observer EXCEPT !.pc = "select"]
    /\ UNCHANGED <<storeVars, storeRet, watchers, clients, nextClient, chans,
                   rlock, ingest, emitted, tasks, received, dropped,
                   panicked, apiRet, clock, limits, storeMu, calls, otherVars>>

\* case <-ticker.C: detectChanges / checkForUpdate finds n events to send
\* (a scan that finds nothing leaves the goroutine at its select).
WatcherTick(n) ==
    /\ ~panicked
    /\ observer.pc = "select"
    /\ emitted[WatcherKey] + n <= WatcherEmit
    /\ observer' = [observer EXCEPT !.pc = "send", !.pending = n]
    /\ UNCHANGED <<storeVars, storeRet, watchers, clients, nextClient, chans,
                   rlock, ingest, stream, emitted, tasks, received, dropped,
                   panicked, apiRet, clock, limits, storeMu, calls, otherVars>>

\* eventCh <- Event{...} in compareStates, handleError and checkForUpdate:
\* a plain send, which waits while the stream is full (and would panic on
\* a closed stream).
WatcherSend ==
    /\ ~panicked
    /\ observer.pc = "send"
    /\ stream[WatcherKey].closed
          \/ Len(stream[WatcherKey].buf) < EventChCap
    /\ IF stream[WatcherKey].closed
       THEN /\ panicked' = TRUE
            /\ UNCHANGED <<stream, emitted, observer, otherVars>>
       ELSE /\ stream' = [stream EXCEPT ![WatcherKey].buf =
                  Append(@, EmitInput(WatcherKey, emitted[WatcherKey] + 1))]
            /\ emitted' = [emitted EXCEPT ![WatcherKey] = @ + 1]
            /\ observer' = [observer EXCEPT
                  !.pending = @ - 1,
                  !.pc = IF observer.pending = 1 THEN "select" ELSE "send"]
            /\ UNCHANGED panicked
    /\ UNCHANGED <<storeVars, storeRet, watchers, clients, nextClient, chans,
                   rlock, ingest, tasks, received, dropped, apiRet, clock,
                   limits, storeMu, calls, otherVars>>

\* case <-w.stopChan: return / case <-ctx.Done(): return, and the deferred
\* close(eventCh).
WatcherReturn ==
    /\ ~panicked
    /\ observer.pc = "select"
    /\ observer.stopChan = "closed" \/ observer.ctx = "cancelled"
    /\ stream' = [stream EXCEPT ![WatcherKey].closed = TRUE]
    /\ observer' = [observer EXCEPT !.pc = "returned"]
    /\ UNCHANGED <<storeVars, storeRet, watchers, clients, nextClient, chans,
                   rlock, ingest, emitted, tasks, received, dropped,
                   panicked, apiRet, clock, limits, storeMu, calls, otherVars>>

\* Stop(): close(w.stopChan).  Its owner calls it once.
WatcherStop ==
    /\ ~panicked
    /\ observer.stopChan = "open"
    /\ observer' = [observer EXCEPT !.stopChan = "closed"]
    /\ UNCHANGED <<storeVars, storeRet, watchers, clients, nextClient, chans,
                   rlock, ingest, stream, emitted, tasks, received, dropped,
                   panicked, apiRet, clock, limits, storeMu, calls, otherVars>>

\* The caller of Watch cancels the context it passed.
ContextCancel ==
    /\ ~panicked
    /\ observer.ctx = "live"
    /\ observer' = [observer EXCEPT !.ctx = "cancelled"]
    /\ UNCHANGED <<storeVars, storeRet, watchers, clients, nextClient, chans,
                   rlock, ingest, stream, emitted, tasks, received, dropped,
                   panicked, apiRet, clock, limits, storeMu, calls, otherVars>>

\* The consumer of the stream takes the next event off it.
StreamReceive ==
    /\ ~panicked
    /\ WatcherKey \in DOMAIN stream
    /\ stream[WatcherKey].buf # <<>>
    /\ stream' = [stream EXCEPT ![WatcherKey].buf = Tail(@)]
    /\ UNCHANGED <<storeVars, storeRet, watchers, clients, nextClient, chans,
                   rlock, ingest, emitted, tasks, received, dropped,
                   panicked, apiRet, clock, limits, storeMu, calls, observer, otherVars>>

NextWatcher ==
    \/ WatcherWatchFails
    \/ WatcherWatch
    \/ \E n \in 1..WatcherEmit : WatcherTick(n)
    \/ WatcherSend
    \/ WatcherReturn
    \/ WatcherStop
    \/ ContextCancel
    \/ StreamReceive

\* The goroutine of Watch is scheduled: a send that has room goes through,
\* and a select that keeps finding stopChan closed or the context done
\* takes that case in the end.  The consumer of the stream reads when it
\* likes.
SpecWatcher ==
    /\ InitStore
    /\ [][NextWatcher]_vars
    /\ WF_vars(WatcherSend)
    /\ SF_vars(WatcherReturn)

\* The same with a consumer that keeps draining the stream until it is
\* closed, as the range loop of startWatching does.
SpecWatcherDrained == SpecWatcher /\ WF_vars(StreamReceive)

\* ---------------------------------------------------------- TestFileWatcher

\* The scenario of TestFileWatcher: one key, one subscriber; the FileWatcher
\* emits the changes it detects, and its List returns the empty list.
InitTest ==
    /\ InitEventStore
    /\ InitWatchServer
    /\ storeRet = NoStoreCall
    /\ limits = [keys |-> 1, clients |-> 1, emit |-> TestEmit,
                 lists |-> {<<>>}, replay |-> FALSE]

\* The consumer goroutine of the test: for event := range ch ends when ch is
\* closed and drained, and the deferred wg.Done() runs then.
ConsumerDone(c) ==
    /\ c \in DOMAIN chans
    /\ chans[c].closed
    /\ chans[c].buf = <<>>

\* The main goroutine of TestFileWatcher: RegisterWatcher on the new server,
\* then Watch(fileKey, ""), then wg.Wait(), which returns when the consumer
\* goroutine is done, and only then the deferred Unwatch.
TestFileWatcher ==
    IF apiRet.op = "none"
    THEN RegisterWatcher("k1", "w1")
    ELSE IF apiRet.op = "RegisterWatcher"
    THEN Watch("k1", "")
    ELSE /\ ConsumerDone(apiRet.id)
         /\ Unwatch("k1", apiRet.id)

\* The test's main goroutine and the goroutines it sets off.  Nobody calls
\* Stop on the FileWatcher or cancels its context before startWatching
\* returns, so its stream is not closed.
NextTest ==
    \/ TestFileWatcher
    \/ startWatchingWatchFails("k1")
    \/ startWatchingWatch("k1")
    \/ ObserverEmit("k1")
    \/ \E t \in ClockReadings : startWatchingStore("k1", t)
    \/ \E c \in 1..limits.clients : startWatchingSend("k1", c)
    \/ startWatchingUnlock("k1")
    \/ \E id \in 1..limits.clients, r \in limits.lists :
          sendInitialStateList(id, r)
    \/ \E id \in 1..limits.clients : ConsumerReceive(id)

\* Every goroutine that can take a step is scheduled in the end.
SpecTest == InitTest /\ [][NextTest]_vars /\ WF_vars(NextTest)

\* ------------------------------------------------- claims on the EventStore

VersionOf(entry) == entry.Object.ResourceVersion

LastN(s, n) == SubSeq(s, Len(s) - n + 1, Len(s))

\* The entries of key's history that are no longer in its log.
EvictedCount(key) == Len(history[key]) - LenEvents(key)

\* C1: after N appends to a key's log with cap MaxSize the log holds exactly
\* min(N, MaxSize) entries, they are the most recently appended ones, in
\* arrival order, and the log never holds more than MaxSize entries.
C1_LogHoldsMostRecent ==
    \A key \in Keys :
        /\ LenEvents(key) = Min(Len(history[key]), MaxSize)
        /\ LenEvents(key) <= MaxSize
        /\ EventsOf(key) = LastN(history[key], Min(Len(history[key]), MaxSize))

\* C1 witness: a key has had two more appends than the cap, so entries were
\* evicted twice, and its log is full.
C1_Witness ==
    \E key \in Keys :
        /\ Len(history[key]) = MaxSize + 2
        /\ LenEvents(key) = MaxSize

\* C2 (as claimed): GetEventsAfter(key, v), for the version v of an entry
\* that is still in the log and is not the most recent one, returns no error
\* and exactly the entries after that entry, in order.
C2_ReplayReturnsAllAfter ==
    storeRet.op = "GetEventsAfter" =>
        LET evs == EventsOf(storeRet.key) IN
        \A i \in 1..(Len(evs) - 1) :
            (VersionOf(evs[i]) = storeRet.rv
                /\ VersionOf(evs[Len(evs)]) # storeRet.rv)
            => /\ storeRet.err = ""
               /\ storeRet.events = SubSeq(evs, i + 1, Len(evs))

\* C3 (as claimed): GetEventsAfter(key, v), for the version v of an entry
\* that has been evicted from the log, fails with "resourceVersion not
\* found" and returns no entries.
C3_EvictedVersionNotFound ==
    storeRet.op = "GetEventsAfter" =>
        \A i \in 1..EvictedCount(storeRet.key) :
            VersionOf(history[storeRet.key][i]) = storeRet.rv
            => /\ storeRet.err = ErrVersionNotFound
               /\ storeRet.events = <<>>

\* C4: GetEventsAfter(key, v), for the version v of the most recently
\* appended entry, returns the empty sequence and no error.
C4_ReplayAfterLatestIsEmpty ==
    (/\ storeRet.op = "GetEventsAfter"
     /\ LenEvents(storeRet.key) > 0
     /\ VersionOf(events[storeRet.key][LenEvents(storeRet.key)]) = storeRet.rv)
    => /\ storeRet.err = ""
       /\ storeRet.events = <<>>

\* C4 witness: the replay was asked from the latest version of a log that
\* has already evicted an entry.
C4_Witness ==
    /\ storeRet.op = "GetEventsAfter"
    /\ EvictedCount(storeRet.key) > 0
    /\ VersionOf(events[storeRet.key][LenEvents(storeRet.key)]) = storeRet.rv
    /\ storeRet.err = ""

\* C5 (as claimed): any two AddEvent calls on one key return distinct
\* versions, whatever the clock reads and whether or not the log is full.
C5_VersionsDistinct ==
    \A key \in Keys :
        \A i, j \in 1..Len(history[key]) :
            i # j => VersionOf(history[key][i]) # VersionOf(history[key][j])

\* ------------------------------------------------ claims on the WatchServer

\* Everything that was ever put on client c's queue, in order: what its
\* consumer took off it, then what the queue still holds.
Enqueued(c) == received[c] \o chans[c].buf

\* The payload an event carries under its wrapper.
PayloadOf(e) == e.Object.Object

PayloadsOf(seq) == [i \in 1..Len(seq) |-> PayloadOf(seq[i])]

\* The payloads the observers emit.
EmitPayloads == {EmitPayload(key, n) : key \in Keys, n \in 1..limits.emit}

\* The items List returns.
ListPayloads == {"a", "b", "c"}

\* An event the ingest loop fanned out / the log entry made for it.
IsLive(e) == e.Object.wrapper = "json" /\ PayloadOf(e) \in EmitPayloads
IsLiveEntry(e) == e.Object.wrapper = "plain" /\ PayloadOf(e) \in EmitPayloads

\* An ADDED event sendInitialState made / the log entry made for it.
IsSnapshot(e) ==
    e.Object.wrapper = "json" /\ e.Type = Added /\ PayloadOf(e) \in ListPayloads
IsSnapshotEntry(e) ==
    e.Object.wrapper = "plain" /\ PayloadOf(e) \in ListPayloads

\* The payloads of the observer's events in key's log history, in the order
\* they were appended.
LiveLog(key) == PayloadsOf(SelectSeq(history[key], IsLiveEntry))

\* The payloads of the live events put on c's queue, in order.
LiveEnqueued(c) == PayloadsOf(SelectSeq(Enqueued(c), IsLive))

\* The ADDED snapshot events put on c's queue, in order.
SnapshotEnqueued(c) == SelectSeq(Enqueued(c), IsSnapshot)

\* a is b with some elements left out.
RECURSIVE IsSubseq(_, _)
IsSubseq(a, b) ==
    IF a = <<>> THEN TRUE
    ELSE IF b = <<>> THEN FALSE
    ELSE IF Head(a) = Head(b) THEN IsSubseq(Tail(a), Tail(b))
    ELSE IsSubseq(a, Tail(b))

\* The rank of an emitted payload among its key's emissions.
RankOf(key, p) == CHOOSE n \in 1..limits.emit : EmitPayload(key, n) = p

\* The ingest loop of key is in its fan-out and has not visited c yet.
InFlightFor(key, c) ==
    /\ key \in DOMAIN ingest
    /\ ingest[key].pc = "send"
    /\ c \in ingest[key].pending

\* C6: when the ingest loop fans an event out and a subscriber's queue is
\* full, the event is dropped for that subscriber only: the loop never waits
\* on a queue (in a running server its next send, and after the last send
\* its unlock, can always be taken), and every subscriber the loop has
\* visited either got the event or had a full queue, exclusively.
C6_FullQueueDropsForThatSubscriberOnly ==
    \A key \in DOMAIN ingest :
        ingest[key].pc = "send" =>
            /\ \A c \in ingest[key].pending :
                   ~panicked => ENABLED startWatchingSend(key, c)
            /\ (ingest[key].pending = {} /\ ~panicked)
                   => ENABLED startWatchingUnlock(key)
            /\ \A c \in clients[key] \ ingest[key].pending :
                   (PayloadOf(ingest[key].event) \in dropped[c])
                   # (PayloadOf(ingest[key].event) \in Range(LiveEnqueued(c)))

\* C6 witness: the fan-out of an event is over, one subscriber's queue was
\* full and the event was dropped for it, another subscriber of the key got
\* the event.
C6_Witness ==
    \E key \in DOMAIN ingest : \E c1, c2 \in clients[key] :
        /\ c1 # c2
        /\ ingest[key].pc = "send"
        /\ ingest[key].pending = {}
        /\ PayloadOf(ingest[key].event) \in dropped[c1]
        /\ PayloadOf(ingest[key].event) \in Range(LiveEnqueued(c2))

\* C7 (as claimed): no goroutine ever sends on a queue that Unwatch has
\* closed, so no goroutine panics.
C7_NoSendOnClosedQueue == ~panicked

\* C8: the live events put on a subscriber's queue are in the order in which
\* they were appended to the key's log, and that is the order in which the
\* observer emitted them.
C8_LiveOrderIsLogOrder ==
    /\ \A c \in DOMAIN chans :
           IsSubseq(LiveEnqueued(c), LiveLog(tasks[c].key))
    /\ \A key \in Keys :
           \A i, j \in 1..Len(LiveLog(key)) :
               i < j => RankOf(key, LiveLog(key)[i]) < RankOf(key, LiveLog(key)[j])

\* C8 witness: a consumer has received two live events.
C8_Witness ==
    \E c \in DOMAIN chans :
        Len(PayloadsOf(SelectSeq(received[c], IsLive))) >= 2

\* The live events of key's log that the fan-out has offered to c and has
\* not dropped for it.
NotDroppedFor(key, c) ==
    LET Kept(p) == /\ p \notin dropped[c]
                   /\ ~(InFlightFor(key, c)
                          /\ p = PayloadOf(ingest[key].event))
    IN  SelectSeq(LiveLog(key), Kept)

\* The subscribers of key that registered before its observer emitted.
EarlySubscribers(key) == {c \in clients[key] : tasks[c].at = 0}

ThreeItemSubscribers ==
    {c \in DOMAIN tasks : /\ tasks[c].kind = "sendInitialState"
                          /\ Len(tasks[c].listed) = 3}

\* Position i of c's queue history holds a live event the observer emitted
\* after c's Watch call.
LiveAfterWatch(c, i) ==
    /\ IsLive(Enqueued(c)[i])
    /\ RankOf(tasks[c].key, PayloadOf(Enqueued(c)[i])) > tasks[c].at

\* Some live event emitted after c's Watch call was put on c's queue before
\* one of c's snapshot events.
LiveBeforeSnapshot(c) ==
    \E i, j \in 1..Len(Enqueued(c)) :
        i < j /\ LiveAfterWatch(c, i) /\ IsSnapshot(Enqueued(c)[j])

DistinctVersions(seq) ==
    \A i, j \in 1..Len(seq) : i # j => VersionOf(seq[i]) # VersionOf(seq[j])

SnapshotLog(key) == SelectSeq(history[key], IsSnapshotEntry)

\* Two List entries of key's log have the same version only if both were
\* appended when the log was already at its cap (the n-th entry of the
\* history was appended to a full log exactly when n > MaxSize).
DistinctBelowCap(key) ==
    \A i, j \in 1..Len(history[key]) :
        (/\ i < j
         /\ IsSnapshotEntry(history[key][i])
         /\ IsSnapshotEntry(history[key][j])
         /\ VersionOf(history[key][i]) = VersionOf(history[key][j]))
        => i > MaxSize

\* The List items sendInitialState of subscriber c has stored so far.
Processed(c) ==
    SubSeq(tasks[c].listed, 1, Len(tasks[c].listed) - Len(tasks[c].items))

\* The items stored so far by all the sendInitialState tasks of key.
ProcessedFor(key) ==
    {<<c, i>> \in (DOMAIN tasks) \X (1..3) :
        /\ tasks[c].kind = "sendInitialState"
        /\ tasks[c].key = key
        /\ i <= Len(Processed(c))}

ParseVersion(v) ==
    CHOOSE p \in Times \X (0..MaxSize) : FormatVersion(p[1], p[2]) = v

\* The order of versions: by clock reading, then by log length.
VersionLess(v1, v2) ==
    LET a == ParseVersion(v1)
        b == ParseVersion(v2)
    IN  a[1] < b[1] \/ (a[1] = b[1] /\ a[2] < b[2])

\* The subscribers of key made by a Watch without checkpoint before the
\* observer emitted, whose List returned an empty list (and no error).
EndToEndSubscribers(key) ==
    {c \in clients[key] :
        /\ tasks[c].kind = "sendInitialState"
        /\ tasks[c].at = 0
        /\ tasks[c].pc = "done"
        /\ tasks[c].listed = <<>>
        /\ tasks[c].err = ""}

\* The observer of key emitted two events (ADDED, then MODIFIED) and closed
\* its stream, the ingest loop has ended, and the consumer of c has taken
\* everything off its queue, which was never full at a fan-out.
EndToEndDone(key, c) ==
    /\ ~panicked
    /\ emitted[key] = 2
    /\ ingest[key].pc = "stopped"
    /\ chans[c].buf = <<>>
    /\ dropped[c] = {}

\* The consumer of c received exactly the two events of key's observer, in
\* the order of emission.
ReceivedBoth(key, c) ==
    /\ Len(received[c]) = 2
    /\ received[c][1].Type = Added
    /\ PayloadOf(received[c][1]) = EmitPayload(key, 1)
    /\ received[c][2].Type = Modified
    /\ PayloadOf(received[c][2]) = EmitPayload(key, 2)

\* C11 (as claimed): an observer emits ADDED, then MODIFIED, then closes; a
\* subscriber made before the first emission, without checkpoint and with
\* an empty List, receives exactly these two events in that order, and the
\* version of the second is strictly greater than the version of the first.
C11_EndToEndVersionsIncrease ==
    \A key \in DOMAIN clients : \A c \in EndToEndSubscribers(key) :
        EndToEndDone(key, c)
        => /\ ReceivedBoth(key, c)
           /\ VersionLess(VersionOf(received[c][1]),
                          VersionOf(received[c][2]))

\* The delivery half of C11, which the code keeps.
EndToEndDelivery ==
    \A key \in DOMAIN clients : \A c \in EndToEndSubscribers(key) :
        EndToEndDone(key, c) => ReceivedBoth(key, c)

\* C12: RegisterWatcher for a key that is registered returns the "already
\* registered" error and changes nothing else: the observer, the subscriber
\* set and the ingest goroutine of the key (and of every key), the queues,
\* the population tasks and the log stay as they were.
C12_RegisterTwiceChangesNothing ==
    [][\A key \in DOMAIN watchers : \A watcher \in Watchers :
          RegisterWatcher(key, watcher)
          => /\ apiRet'.err = ErrAlreadyRegistered
             /\ UNCHANGED <<watchers, clients, ingest, stream, nextClient,
                            chans, tasks, events, versions>>]_vars

\* C12 witness: the last call was a rejected RegisterWatcher for a key that
\* has a subscriber and whose ingest loop is running.
C12_Witness ==
    /\ apiRet.op = "RegisterWatcher"
    /\ apiRet.err = ErrAlreadyRegistered
    /\ clients[apiRet.key] # {}
    /\ ingest[apiRet.key].pc \in {"recv", "send"}

\* C13: Watch for a key without observer returns the "no watcher
\* registered" error to its caller and makes nothing: no client id is
\* taken, no queue is made or registered, no population task is started.
C13_WatchUnregisteredMakesNothing ==
    [][\A key \in Keys \ DOMAIN watchers : \A rv \in Checkpoints(key) :
          Watch(key, rv)
          => /\ apiRet'.err = ErrNoWatcher
             /\ apiRet'.id = 0
             /\ UNCHANGED <<nextClient, chans, clients, tasks, watchers,
                            ingest, events, versions>>]_vars

\* C13 witness: the last call was a rejected Watch, made after another
\* Watch had taken client id 1, and no second queue or task exists.
C13_Witness ==
    /\ apiRet.op = "Watch"
    /\ apiRet.err = ErrNoWatcher
    /\ nextClient = 1
    /\ DOMAIN chans = {1}
    /\ DOMAIN tasks = {1}

\* The versions carried by the entries key's log holds now.
LogVersions(key) ==
    {VersionOf(EventsOf(key)[i]) : i \in 1..LenEvents(key)}

IsError(e) == e.Type = Error

\* A stored event, as sendHistoryEvents sends it.
IsHistorical(e) == e.Object.wrapper = "plain"

\* The Error events / the stored events put on c's queue so far.
ErrorsEnqueued(c) == SelectSeq(Enqueued(c), IsError)
HistoryEnqueued(c) == SelectSeq(Enqueued(c), IsHistorical)

\* The population tasks of the kind whose List or GetEventsAfter failed.
FailedTasks(kind) ==
    {c \in DOMAIN tasks : tasks[c].kind = kind /\ tasks[c].err # ""}

\* C14: a Watch with a checkpoint that no entry of the key's log carries
\* (never issued, evicted, or no log yet) makes sendHistoryEvents fail, and
\* a sendHistoryEvents that failed puts no stored event on the subscriber's
\* queue and exactly one Error event: none before its send, one after.
C14_AbsentCheckpointOneError ==
    /\ [](\A c \in FailedTasks("sendHistoryEvents") :
             /\ HistoryEnqueued(c) = <<>>
             /\ Len(ErrorsEnqueued(c)) =
                    IF tasks[c].pc = "done" THEN 1 ELSE 0)
    /\ [][\A id \in DOMAIN tasks :
             (/\ sendHistoryEventsGet(id)
              /\ tasks[id].rv \notin LogVersions(tasks[id].key))
             => /\ tasks'[id].pc = "error"
                /\ tasks'[id].err # ""
                /\ tasks'[id].event.Type = Error]_vars

\* C14 witness: a subscriber came with a checkpoint that had been issued and
\* was evicted; its sendHistoryEvents got "not found" and has put its one
\* Error event on the queue.
C14_Witness ==
    \E c \in FailedTasks("sendHistoryEvents") :
        /\ tasks[c].pc = "done"
        /\ tasks[c].err = ErrVersionNotFound
        /\ tasks[c].rv \in IssuedVersions
        /\ tasks[c].rv \notin LogVersions(tasks[c].key)
        /\ Len(ErrorsEnqueued(c)) = 1

\* A Watch for a registered key with a checkpoint that no entry of the
\* key's log carries.
WatchAbsentCheckpoint(key, rv) ==
    /\ key \in DOMAIN watchers
    /\ rv # ""
    /\ rv \notin LogVersions(key)
    /\ Watch(key, rv)

\* C15 (as claimed): a Watch with a checkpoint that is absent from the
\* key's log returns an error to its caller.
C15_AbsentCheckpointFailsCall ==
    [][\A key \in Keys : \A rv \in Checkpoints(key) :
          WatchAbsentCheckpoint(key, rv) => apiRet'.err # ""]_vars

\* C15 (amended): a Watch with a checkpoint that is absent from the key's
\* log returns success to its caller, with a new client id, and starts
\* sendHistoryEvents; the failure never reaches the caller: the steps of
\* the population task leave what Watch returned as it is.
C15_AbsentCheckpointCallSucceeds ==
    /\ [][\A key \in Keys : \A rv \in Checkpoints(key) :
             WatchAbsentCheckpoint(key, rv)
             => /\ apiRet'.err = ""
                /\ apiRet'.id = nextClient + 1
                /\ tasks'[nextClient + 1].kind = "sendHistoryEvents"
                /\ tasks'[nextClient + 1].pc = "get"]_vars
    /\ [][\A id \in DOMAIN tasks :
             (sendHistoryEventsGet(id) \/ populationSendError(id))
             => UNCHANGED apiRet]_vars

\* C15 witness: the last call, a Watch, returned success for client c, and
\* the sendHistoryEvents of c has failed and sent its Error event.
C15_Witness ==
    \E c \in FailedTasks("sendHistoryEvents") :
        /\ apiRet.op = "Watch"
        /\ apiRet.id = c
        /\ apiRet.err = ""
        /\ tasks[c].pc = "done"
        /\ Len(ErrorsEnqueued(c)) = 1

\* C16: when List fails in sendInitialState, the caller of Watch is not
\* told (what Watch returned stays, and the log is not touched by the
\* failing steps); the subscriber gets exactly one Error event (none
\* before the send, one after) and no ADDED event, and no entry is logged
\* for this Watch: the log holds one List entry for each item the other
\* sendInitialState tasks of the key have stored.
C16_ListFailureOneError ==
    /\ [](\A c \in FailedTasks("sendInitialState") :
             /\ SnapshotEnqueued(c) = <<>>
             /\ tasks[c].listed = <<>>
             /\ Processed(c) = <<>>
             /\ Len(SnapshotLog(tasks[c].key)) =
                    Cardinality(ProcessedFor(tasks[c].key))
             /\ Len(ErrorsEnqueued(c)) =
                    IF tasks[c].pc = "done" THEN 1 ELSE 0)
    /\ [][\A id \in DOMAIN tasks :
             (sendInitialStateListFails(id) \/ populationSendError(id))
             => UNCHANGED <<apiRet, events, versions, history>>]_vars

\* C16 witness: the last call, a Watch without checkpoint, returned success
\* for client c; List failed, and the consumer of c has received the Error
\* event.
C16_Witness ==
    \E c \in FailedTasks("sendInitialState") :
        /\ apiRet.op = "Watch"
        /\ apiRet.id = c
        /\ apiRet.err = ""
        /\ tasks[c].pc = "done"
        /\ Len(SelectSeq(received[c], IsError)) = 1

\* C17: the queue of every subscribed client is open; a queue that is
\* closed stays closed, and the only step that closes a queue is Unwatch
\* for its client id: the end of the observer's stream and the exit of the
\* ingest loop close nothing.  After the ingest loop has ended the log is
\* still replayed: GetEventsAfter for a version of the index succeeds.
C17_ClosedOnlyByUnwatch ==
    /\ [](\A key \in DOMAIN clients : \A c \in clients[key] :
             ~chans[c].closed)
    /\ [][\A c \in DOMAIN chans :
             /\ chans[c].closed => chans'[c].closed
             /\ (~chans[c].closed /\ chans'[c].closed)
                   => \E key \in Keys : Unwatch(key, c)]_vars
    /\ [][\A id \in DOMAIN tasks :
             (/\ sendHistoryEventsGet(id)
              /\ ingest[tasks[id].key].pc = "stopped"
              /\ tasks[id].rv \in DOMAIN VersionsOf(tasks[id].key))
             => tasks'[id].err = ""]_vars

\* C17 witness: the observer's stream is closed and the ingest loop has
\* ended; a subscriber who came after the last emission is still
\* subscribed, its queue is open, and its replay gave it a stored event.
C17_Witness ==
    \E key \in DOMAIN clients : \E c \in clients[key] :
        /\ ingest[key].pc = "stopped"
        /\ key \in DOMAIN stream
        /\ stream[key].closed
        /\ ~chans[c].closed
        /\ tasks[c].kind = "sendHistoryEvents"
        /\ tasks[c].at = emitted[key]
        /\ tasks[c].err = ""
        /\ HistoryEnqueued(c) # <<>>

\* C18 (as claimed): in TestFileWatcher the consumer that drains the stream
\* until it is closed finishes in the end, wg.Wait() returns and the
\* deferred Unwatch runs: the test terminates.
C18_TestTerminates == <>ConsumerDone(1)

\* What the code does instead, in every reachable state of the test and
\* however many changes the FileWatcher detects: the queue is never closed,
\* so the consumer is never done.
ConsumerNeverDone == \A c \in DOMAIN chans : ~chans[c].closed

\* ------------------------------------------------- the index of the store

\* C19 (as claimed): for every version v of a key's index, the log has an
\* entry at position index[v] (counted from zero) and that entry carries v.
C19_IndexPointsAtItsEntry ==
    \A key \in DOMAIN versions : \A v \in DOMAIN versions[key] :
        /\ versions[key][v] + 1 \in 1..LenEvents(key)
        /\ VersionOf(EventsOf(key)[versions[key][v] + 1]) = v

\* C20 (as claimed): the versions of a key's index are exactly the versions
\* carried by the entries of the key's log, and never more than the cap.
C20_IndexIsLogVersions ==
    \A key \in DOMAIN versions :
        /\ DOMAIN versions[key] = LogVersions(key)
        /\ Cardinality(DOMAIN versions[key]) <= MaxSize

\* The half of C20 the code keeps: an index holds only versions that
\* entries of the log carry, and never more than the cap.
IndexWithinLog ==
    \A key \in DOMAIN versions :
        /\ DOMAIN versions[key] \subseteq LogVersions(key)
        /\ Cardinality(DOMAIN versions[key]) <= MaxSize

\* --------------------------------------------- versions on delivered events

\* An event that carries a version: everything put on a queue except the
\* Error events of the population tasks.
IsVersioned(e) == e.Object.wrapper # "none"

\* The entries of `seq` that were made for the delivered event e: the same
\* type, payload and version.
EntriesOf(seq, e) ==
    {j \in 1..Len(seq) :
        /\ seq[j].Type = e.Type
        /\ PayloadOf(seq[j]) = PayloadOf(e)
        /\ VersionOf(seq[j]) = VersionOf(e)}

\* Every delivered event carries the version AddEvent returned for the log
\* entry made for it.
DeliveredCarryAppendVersion ==
    \A c \in DOMAIN chans : \A i \in 1..Len(Enqueued(c)) :
        LET e == Enqueued(c)[i]
        IN  IsVersioned(e) => EntriesOf(history[tasks[c].key], e) # {}

\* C21: every delivered event carries exactly the version AddEvent returned
\* for its log entry, so that the version taken from any delivered event
\* whose entry is still retained is found by GetEventsAfter.
C21_DeliveredVersionIsFound ==
    /\ DeliveredCarryAppendVersion
    /\ \A c \in DOMAIN chans : \A i \in 1..Len(Enqueued(c)) :
          LET e == Enqueued(c)[i]
              key == tasks[c].key
          IN  IsVersioned(e) /\ EntriesOf(EventsOf(key), e) # {}
                  => GetEventsAfter(key, VersionOf(e)).err = ""
\* Every List item a sendInitialState task has got to is in the key's log
\* history, whether its offer went through or timed out.
SnapshotItemsAppended ==
    \A key \in DOMAIN events :
        Len(SnapshotLog(key)) = Cardinality(ProcessedFor(key))

\* C22: every ADDED event made for a Watch without checkpoint is appended
\* to the key's log by AddEvent, whether or not its offer to the subscriber
\* timed out, and GetEventsAfter from an earlier retained version returns
\* it.
C22_SnapshotEntriesReplayable ==
    /\ SnapshotItemsAppended
    /\ \A key \in DOMAIN events : \A i, j \in 1..LenEvents(key) :
          i < j /\ IsSnapshotEntry(events[key][j])
              => LET got == GetEventsAfter(key, VersionOf(events[key][i]))
                 IN  /\ got.err = ""
                     /\ events[key][j] \in Range(got.events)
\* ------------------------------------------------ the mutex of the store

\* The log and the index after one whole AddEvent that stores `entry` on
\* top of the log evs and the index idx.
LogAfter(evs, entry) ==
    Append(IF Len(evs) >= MaxSize THEN DropOldest(evs) ELSE evs, entry)

IndexAfter(evs, idx, entry) ==
    MapPut(IF Len(evs) >= MaxSize /\ IsStoreWrapper(evs[1].Object)
           THEN MapDelete(idx, VersionOf(evs[1]))
           ELSE idx,
           VersionOf(entry), IndexOfNew(LogAfter(evs, entry)))

\* The log and the index a key has after the appends of h, each done as a
\* whole, one after the other.
RECURSIVE StoreAfter(_)
StoreAfter(h) ==
    IF h = <<>>
    THEN [events |-> <<>>, versions |-> <<>>]
    ELSE LET prev == StoreAfter(SubSeq(h, 1, Len(h) - 1))
         IN  [events |-> LogAfter(prev.events, h[Len(h)]),
              versions |-> IndexAfter(prev.events, prev.versions, h[Len(h)])]

\* The log and the index of every key are as a sequence of whole appends
\* leaves them: no append is half done.
WholeAppendsOnly ==
    \A key \in Keys :
        /\ key \in DOMAIN events <=> key \in DOMAIN versions
        /\ EventsOf(key) = StoreAfter(history[key]).events
        /\ VersionsOf(key) = StoreAfter(history[key]).versions

\* The goroutines between Lock and Unlock of AddEvent, and between RLock
\* and RUnlock of GetEventsAfter.
InAddEvent ==
    {g \in Goroutines : calls[g].op = "AddEvent" /\ calls[g].pc # "Lock"}
InGetEventsAfter ==
    {g \in Goroutines :
        calls[g].op = "GetEventsAfter" /\ calls[g].pc # "RLock"}

\* C23: AddEvent and GetEventsAfter exclude each other: while a
\* GetEventsAfter is between RLock and RUnlock no AddEvent is under way, the
\* log and the index it reads are those left by whole appends, and what it
\* returns is what the log and the index give at that moment; at most one
\* AddEvent is under way at a time, and when none is, the log and the index
\* are those left by whole appends done one after the other.
C23_AppendAndReplayExclude ==
    /\ Cardinality(InAddEvent) <= 1
    /\ InAddEvent # {} => InGetEventsAfter = {}
    /\ InAddEvent = {} => WholeAppendsOnly
    /\ \A g \in InGetEventsAfter :
          calls[g].pc = "RUnlock"
              => calls[g].ret = GetEventsAfter(calls[g].key, calls[g].rv)

\* C23 witness: a GetEventsAfter holds the read lock with the events it
\* got out of the log while an AddEvent called by the other goroutine waits
\* in Lock.
C23_Witness ==
    \E g, h \in Goroutines :
        /\ calls[g].op = "GetEventsAfter"
        /\ calls[g].pc = "RUnlock"
        /\ calls[g].ret.err = ""
        /\ calls[g].ret.events # <<>>
        /\ calls[h].op = "AddEvent"
        /\ calls[h].pc = "Lock"
\* --------------------------------------------- the locks of the WatchServer

\* The keys whose startWatching is inside watcher.Watch(ctx), and the
\* clients whose sendInitialState is inside watcher.List().
InObserverWatch == {key \in DOMAIN ingest : ingest[key].pc = "watch"}
InObserverList == {c \in DOMAIN tasks : tasks[c].pc = "list"}

\* C24: s.mu is not held across an observer's Watch or List: a startWatching
\* goroutine holds it only between taking an event off its stream and the
\* end of the fan-out, which waits for nobody; so whatever observers are
\* inside Watch or List, RegisterWatcher, Watch and Unwatch on any key go
\* through as soon as the running fan-outs are over, the ingestion of the
\* other keys goes on, and Watch has returned while the List call of its
\* sendInitialState is still to come back.
C24_NoLockAcrossObserverCalls ==
    /\ \A key \in rlock : ingest[key].pc = "send"
    /\ \A key \in rlock :
          ~panicked => ENABLED (\/ startWatchingUnlock(key)
                                \/ \E c \in 1..limits.clients :
                                      startWatchingSend(key, c))
    /\ ~panicked /\ rlock = {} =>
          \A key \in Keys :
              /\ ENABLED Unwatch(key, 1)
              /\ key \in DOMAIN watchers => ENABLED RegisterWatcher(key, "w2")
              /\ key \notin DOMAIN watchers \/ nextClient < limits.clients
                     => ENABLED Watch(key, "")
    /\ \A key \in DOMAIN ingest :
          ~panicked /\ ingest[key].pc = "recv" /\ stream[key].buf # <<>>
              => ENABLED (\E t \in ClockReadings : startWatchingStore(key, t))
    /\ \A c \in InObserverList : c \in DOMAIN chans /\ c <= nextClient

\* C24 witness: the observer of one key has not come back from Watch, the
\* sendInitialState of a subscriber of that key has not come back from
\* List, that subscriber's Watch and Unwatch are done, and another key,
\* registered since, has ingested an event.
C24_Witness ==
    \E key \in InObserverWatch, c \in InObserverList, other \in Keys :
        /\ tasks[c].key = key
        /\ chans[c].closed
        /\ other # key
        /\ Len(history[other]) > 0
\* ------------------------------------------------------ the ingest tasks

\* The keys whose startWatching goroutine has returned.
Stopped == {key \in DOMAIN ingest : ingest[key].pc = "stopped"}

\* C25: a startWatching goroutine that has returned (Watch failed, or the
\* stream was closed and drained) stays returned: nothing starts it again,
\* no further event of the observer enters the key's log, the key stays
\* registered, and a RegisterWatcher for the key still fails with "already
\* registered".
C25_StoppedIngestStaysStopped ==
    [][\A key \in Stopped :
          /\ key \in DOMAIN ingest'
          /\ ingest'[key].pc = "stopped"
          /\ key \in DOMAIN watchers'
          /\ LiveLog(key)' = LiveLog(key)
          /\ (/\ apiRet' # apiRet
              /\ apiRet'.op = "RegisterWatcher"
              /\ apiRet'.key = key) => apiRet'.err = ErrAlreadyRegistered]_vars

\* C25 witness: the ingest task of a key has returned after it ingested an
\* event and its stream was closed, and a RegisterWatcher for the key has
\* failed.
C25_Witness ==
    \E key \in Stopped :
        /\ key \in DOMAIN stream
        /\ stream[key].closed
        /\ Len(LiveLog(key)) > 0
        /\ apiRet.op = "RegisterWatcher"
        /\ apiRet.key = key
        /\ apiRet.err = ErrAlreadyRegistered
\* The keys whose startWatching goroutine is in its range loop over a
\* stream the observer has not closed.
Running ==
    {key \in DOMAIN ingest :
        /\ ingest[key].pc \in {"recv", "send"}
        /\ ~stream[key].closed}

\* C26: the server can cancel the context of a running ingest task: while
\* startWatching is in its loop and the observer has not closed the stream,
\* a step that cancels the context is possible (after which the stream is
\* closed and the task returns).
C26_ServerCanCancelRunningIngest ==
    \A key \in Running : ~panicked => ENABLED CancelIngest(key)

\* What the code does instead: the context of a key is cancelled only by
\* the return of startWatching, that is when Watch has failed or after the
\* observer itself has closed the stream and the loop has drained it.
CancelledOnlyAfterClose ==
    \A key \in Stopped :
        key \in DOMAIN stream => stream[key].closed /\ stream[key].buf = <<>>
\* --------------------------------------------------- one key and another

\* The payloads the observer of key has emitted so far.
EmittedBy(key) == {EmitPayload(key, n) : n \in 1..emitted[key]}

\* The keys whose startWatching returns in this step.
Stopping == {key \in DOMAIN ingest :
                ingest[key].pc # "stopped" /\ ingest'[key].pc = "stopped"}

\* C27: an observer whose Watch fails or whose stream is closed stops the
\* ingestion of its own key only: the step in which its startWatching
\* returns changes nothing of the other keys' goroutines, streams, clients
\* and logs, and a registered key whose stream holds an event can still
\* take it in; and every observer event in a key's log or on the queue of a
\* key's subscriber was emitted by that key's observer.
C27_KeysAreIsolated ==
    /\ [](\A key \in Keys :
            /\ \A i \in 1..Len(history[key]) :
                  IsLiveEntry(history[key][i])
                      => PayloadOf(history[key][i]) \in EmittedBy(key)
            /\ \A c \in {d \in DOMAIN chans : tasks[d].key = key} :
               \A i \in 1..Len(Enqueued(c)) :
                  IsLive(Enqueued(c)[i])
                      => PayloadOf(Enqueued(c)[i]) \in EmittedBy(key)
            /\ (/\ ~panicked
                /\ key \in DOMAIN ingest
                /\ ingest[key].pc = "recv"
                /\ stream[key].buf # <<>>)
                  => ENABLED (\E t \in ClockReadings :
                                 startWatchingStore(key, t)))
    /\ [][\A key \in Stopping :
             /\ \A other \in (DOMAIN ingest) \ {key} :
                   ingest'[other] = ingest[other]
             /\ stream' = stream
             /\ clients' = clients
             /\ chans' = chans
             /\ rlock' = rlock
             /\ panicked' = panicked
             /\ storeVars' = storeVars]_vars

\* C27 witness: the ingest task of one key has returned after its
\* observer's stream was closed, and the task of another key has just
\* stored an event of its observer and put it on its subscriber's queue.
C27_Witness ==
    \E key \in Stopped, other \in DOMAIN ingest, c \in DOMAIN chans :
        /\ other # key
        /\ key \in DOMAIN stream
        /\ ingest[other].pc = "send"
        /\ ingest[other].pending = {}
        /\ c \in ClientsOf(other)
        /\ Len(LiveEnqueued(c)) > 0
\* ---------------------------------------------------------------- Unwatch

\* The handle names a queue that key's client map holds.
Subscribed(key, id) == key \in DOMAIN clients /\ id \in clients[key]

\* The handles a caller may pass: those Watch has given out and one it has
\* not.
Handles == 1..(limits.clients + 1)

\* C28: Unwatch with a handle that key's client map does not hold (already
\* unsubscribed, of another key, never given out, or the key unknown)
\* closes no queue and changes nothing; an Unwatch that finds the queue
\* finds it open, closes it and removes it, so that a closed queue is in no
\* client map and no queue is closed twice.
C28_UnwatchIsIdempotent ==
    /\ [](\A key \in DOMAIN clients : \A c \in clients[key] :
             ~chans[c].closed)
    /\ [][\A key \in Keys, id \in Handles :
             Unwatch(key, id)
                 => /\ ~panicked'
                    /\ ~Subscribed(key, id) => UNCHANGED vars
                    /\ Subscribed(key, id)
                          => /\ ~Subscribed(key, id)'
                             /\ chans'[id].closed
                             /\ \A c \in (DOMAIN chans) \ {id} :
                                   chans'[c] = chans[c]]_vars

\* C28 witness: a subscriber of one key has been unsubscribed while both
\* keys are registered and no fan-out is under way: Unwatch with its handle
\* can be called again, for its key and for the other.
C28_Witness ==
    \E id \in DOMAIN chans :
        /\ chans[id].closed
        /\ ~panicked
        /\ rlock = {}
        /\ Keys \subseteq DOMAIN clients
        /\ \A key \in Keys : ~Subscribed(key, id)
\* ------------------------------------------- FileWatcher and GitWatcher

\* Stop was called or the context was cancelled, and Watch has returned a
\* stream.
StopSignalled ==
    /\ WatcherKey \in DOMAIN stream
    /\ observer.stopChan = "closed" \/ observer.ctx = "cancelled"

StreamClosed == WatcherKey \in DOMAIN stream /\ stream[WatcherKey].closed

\* The goroutine of Watch never sends on the stream after closing it.
WatcherNeverSendsAfterClose == ~panicked

StuckInSend ==
    /\ StopSignalled
    /\ observer.pc = "send"
    /\ Len(stream[WatcherKey].buf) = EventChCap
\* -------------------------------------------- the population goroutines

\* The population goroutine of client c has returned, or the process has
\* panicked.
PopulationOver(c) == panicked \/ (c \in DOMAIN tasks /\ tasks[c].pc = "done")

\* C30: every sendInitialState and sendHistoryEvents goroutine returns in
\* the end, whether or not the consumer reads its queue: an item that finds
\* the queue full is skipped after the timeout, and the send of the Error
\* event for a failed List or GetEventsAfter completes as well.
C30_PopulationTerminates ==
    \A c \in 1..MaxClients : (c \in DOMAIN tasks) ~> PopulationOver(c)

\* Where a population goroutine is stuck: in the plain send of its Error
\* event, on a queue the fan-out has filled and nobody reads.
StuckInErrorSend ==
    \E c \in DOMAIN tasks :
        /\ ~panicked
        /\ tasks[c].pc = "error"
        /\ ~chans[c].closed
        /\ ChanFull(chans[c])

\* The goroutines that have no error to report do return: none of them
\* waits for the consumer.
ItemsNeverWait ==
    \A c \in DOMAIN tasks :
        ~panicked /\ tasks[c].pc \in {"offer", "add", "list", "get"}
            => ENABLED PopulationStep(c)
\* ------------------------------------------- replay and the live fan-out

\* The subscribers that came with a checkpoint the key's log held, whose
\* sendHistoryEvents has returned without a timeout, that are still
\* subscribed and for which the fan-out has skipped nothing, on a key whose
\* log has evicted nothing.
GaplessSubscribers ==
    {c \in DOMAIN tasks :
        /\ tasks[c].kind = "sendHistoryEvents"
        /\ tasks[c].pc = "done"
        /\ tasks[c].err = ""
        /\ tasks[c].timeouts = 0
        /\ dropped[c] = {}
        /\ c \in ClientsOf(tasks[c].key)
        /\ EvictedCount(tasks[c].key) = 0}

\* The places of key's history that hold the version rv.
PlacesOf(key, rv) ==
    {i \in 1..Len(history[key]) : VersionOf(history[key][i]) = rv}

\* C31: for a Watch with a checkpoint the key's log holds, when nothing is
\* evicted and nothing is skipped or timed out for the subscriber, every
\* event of the observer appended after the checkpoint is put on the
\* subscriber's queue at least once, by sendHistoryEvents or by the fan-out
\* (the entry whose fan-out has not got to the subscriber yet excepted).
C31_NoGapBetweenReplayAndLive ==
    \A c \in GaplessSubscribers :
        LET key == tasks[c].key
        IN  \A i \in PlacesOf(key, tasks[c].rv) :
            \A j \in (i + 1)..Len(history[key]) :
                (/\ ~panicked
                 /\ IsLiveEntry(history[key][j])
                 /\ ~(InFlightFor(key, c) /\ j = Len(history[key])))
                    => \E n \in 1..Len(Enqueued(c)) :
                          /\ PayloadOf(Enqueued(c)[n]) =
                                PayloadOf(history[key][j])
                          /\ VersionOf(Enqueued(c)[n]) =
                                VersionOf(history[key][j])

\* C31 witness: an event appended after the checkpoint reached the
\* subscriber twice, once from the log and once from the fan-out: it was
\* appended between the Watch call and the reading of the log.
C31_Witness ==
    \E c \in GaplessSubscribers :
        /\ ~panicked
        /\ PlacesOf(tasks[c].key, tasks[c].rv) # {}
        /\ Len(HistoryEnqueued(c)) > 0
        /\ \E n \in 1..Len(Enqueued(c)) :
              /\ IsLive(Enqueued(c)[n])
              /\ PayloadOf(Enqueued(c)[n]) = PayloadOf(HistoryEnqueued(c)[1])

\* ------------------------------------------------------- the two locks

\* The server with every acquisition of WatchServer.mu and EventStore.mu by
\* a goroutine as a step of its own: startWatching takes s.mu.RLock() and,
\* holding it, EventStore.mu.Lock() inside AddEvent; sendInitialState and
\* sendHistoryEvents take EventStore.mu only; RegisterWatcher, Watch and
\* Unwatch take s.mu.Lock() only and do nothing that waits under it.

LocksClients == 1
LocksEmit == 1

\* The names under which the goroutines hold EventStore.mu: startWatching
\* by its key, a population goroutine by its client id.
IngestName(key) == key
TaskName(id) == ToString(id)

\* defer s.mu.Unlock() / defer s.mu.RUnlock() of the store, by goroutine g.
StoreUnlockSkipped(mu, g) == mu
StoreUnlock(mu, g) ==
    [writer |-> IF mu.writer = g THEN "" ELSE mu.writer,
     readers |-> mu.readers \ {g}]

InitLocks ==
    /\ InitEventStore
    /\ InitWatchServer
    /\ storeRet = NoStoreCall
    /\ limits = [keys |-> MaxKeys, clients |-> LocksClients,
                 emit |-> LocksEmit, lists |-> {<<"a">>}, replay |-> TRUE]

\* startWatching: for event := range eventCh takes the next event off the
\* stream, then s.mu.RLock(); no goroutine keeps s.mu locked for writing
\* across steps, so the read lock is there to take.
startWatchingRLock(key) ==
    /\ ~panicked
    /\ key \in DOMAIN ingest
    /\ ingest[key].pc = "recv"
    /\ stream[key].buf # <<>>
    /\ stream' = [stream EXCEPT ![key].buf = Tail(@)]
    /\ rlock' = rlock \cup {key}
    /\ ingest' = [ingest EXCEPT ![key].pc = "AddEvent",
                                ![key].event = StreamNext(stream[key].buf)]
    /\ UNCHANGED <<storeVars, storeRet, watchers, clients, nextClient, chans,
                   emitted, tasks, received, dropped, panicked, apiRet,
                   clock, limits, storeMu, calls, observer, otherVars>>

\* startWatching, in AddEvent: s.mu.Lock() of the store, with s.mu of the
\* server held for reading.
startWatchingLock(key) ==
    /\ ~panicked
    /\ key \in DOMAIN ingest
    /\ ingest[key].pc = "AddEvent"
    /\ CanLock(IngestName(key))
    /\ storeMu' = [storeMu EXCEPT !.writer = IngestName(key)]
    /\ ingest' = [ingest EXCEPT ![key].pc = "locked"]
    /\ UNCHANGED <<storeVars, storeRet, watchers, clients, nextClient, chans,
                   rlock, stream, emitted, tasks, received, dropped,
                   panicked, apiRet, clock, limits, calls, observer, otherVars>>

\* startWatching: the body of AddEvent and its deferred Unlock, then
\* addResourceVersion; the range over s.clients[key] is about to start.
startWatchingAddEvent(key, t) ==
    /\ ~panicked
    /\ key \in DOMAIN ingest
    /\ ingest[key].pc = "locked"
    /\ AddEvent(key, ingest[key].event, t)
    /\ storeMu' = StoreUnlock(storeMu, IngestName(key))
    /\ ingest' = [ingest EXCEPT
          ![key].pc = "send",
          ![key].event = [Type |-> ingest[key].event.Type,
                          Object |-> addResourceVersion(
                                        ingest[key].event.Object,
                                        AddEventVersion(key, t))],
          ![key].pending = FanOutClients(key)]
    /\ clock' = t
    /\ UNCHANGED <<storeRet, watchers, clients, nextClient, chans, rlock,
                   stream, emitted, tasks, received, dropped, panicked,
                   apiRet, limits, calls, observer, otherVars>>

\* sendInitialState, in AddEvent: s.mu.Lock() of the store.
sendInitialStateLock(id) ==
    /\ ~panicked
    /\ id \in DOMAIN tasks
    /\ tasks[id].pc = "add"
    /\ CanLock(TaskName(id))
    /\ storeMu' = [storeMu EXCEPT !.writer = TaskName(id)]
    /\ tasks' = [tasks EXCEPT ![id].pc = "locked"]
    /\ UNCHANGED <<storeVars, storeRet, watchers, clients, nextClient, chans,
                   rlock, ingest, stream, emitted, received, dropped,
                   panicked, apiRet, clock, limits, calls, observer, otherVars>>

\* sendInitialState: the body of AddEvent for the next item and its
\* deferred Unlock, then addResourceVersion.
sendInitialStateAddEvent(id, t) ==
    /\ ~panicked
    /\ id \in DOMAIN tasks
    /\ tasks[id].pc = "locked"
    /\ AddEvent(tasks[id].key,
                [Type |-> Added, Object |-> NextResource(tasks[id].items)], t)
    /\ storeMu' = StoreUnlock(storeMu, TaskName(id))
    /\ tasks' = [tasks EXCEPT
          ![id].pc = "offer",
          ![id].items = Tail(@),
          ![id].event = [Type |-> Added,
                         Object |-> addResourceVersion(
                                       NextResource(tasks[id].items),
                                       AddEventVersion(tasks[id].key, t))]]
    /\ clock' = t
    /\ UNCHANGED <<storeRet, watchers, clients, nextClient, chans, rlock,
                   ingest, stream, emitted, received, dropped, panicked,
                   apiRet, limits, calls, observer, otherVars>>

\* sendHistoryEvents, in GetEventsAfter: s.mu.RLock() of the store.
sendHistoryEventsRLock(id) ==
    /\ ~panicked
    /\ id \in DOMAIN tasks
    /\ tasks[id].pc = "get"
    /\ CanRLock(TaskName(id))
    /\ storeMu' = [storeMu EXCEPT !.readers = @ \cup {TaskName(id)}]
    /\ tasks' = [tasks EXCEPT ![id].pc = "rlocked"]
    /\ UNCHANGED <<storeVars, storeRet, watchers, clients, nextClient, chans,
                   rlock, ingest, stream, emitted, received, dropped,
                   panicked, apiRet, clock, limits, calls, observer, otherVars>>

\* sendHistoryEvents: the body of GetEventsAfter and its deferred RUnlock,
\* then the Error event or the events.
sendHistoryEventsGetEventsAfter(id) ==
    /\ ~panicked
    /\ id \in DOMAIN tasks
    /\ tasks[id].pc = "rlocked"
    /\ storeMu' = StoreUnlock(storeMu, TaskName(id))
    /\ LET r == GetEventsAfter(tasks[id].key, tasks[id].rv) IN
       tasks' = [tasks EXCEPT ![id] =
          IF Failed(r)
          THEN [@ EXCEPT !.pc = "error",
                         !.err = r.err,
                         !.event = [Type |-> Error,
                                    Object |-> Unwrapped(r.err)]]
          ELSE TaskAfterItem([@ EXCEPT !.items = r.events,
                                       !.listed = r.events])]
    /\ UNCHANGED <<storeVars, storeRet, watchers, clients, nextClient, chans,
                   rlock, ingest, stream, emitted, received, dropped,
                   panicked, apiRet, clock, limits, calls, observer, otherVars>>

\* The steps startWatching takes from s.mu.RLock() to s.mu.RUnlock().
IngestLockedStep(key) ==
    \/ startWatchingLock(key)
    \/ \E t \in ClockReadings : startWatchingAddEvent(key, t)
    \/ \E c \in 1..limits.clients : startWatchingSend(key, c)
    \/ startWatchingUnlock(key)

\* The steps a population goroutine takes inside the store.
TaskStoreStep(id) ==
    \/ \E t \in ClockReadings : sendInitialStateAddEvent(id, t)
    \/ sendHistoryEventsGetEventsAfter(id)

NextLocks ==
    \/ \E key \in Keys, watcher \in Watchers :
          /\ key \in DOMAIN watchers \/ watcher = "w1"
          /\ key = "k1" \/ "k1" \in DOMAIN watchers
          /\ RegisterWatcher(key, watcher)
    \/ \E key \in Keys : \E rv \in Checkpoints(key) : Watch(key, rv)
    \/ \E key \in Keys, id \in 1..limits.clients : Unwatch(key, id)
    \/ \E key \in Keys : startWatchingWatchFails(key)
    \/ \E key \in Keys : startWatchingWatch(key)
    \/ \E key \in Keys : ObserverEmit(key)
    \/ \E key \in Keys : ObserverClose(key)
    \/ \E key \in Keys : startWatchingExit(key)
    \/ \E key \in Keys : startWatchingRLock(key)
    \/ \E key \in Keys : startWatchingLock(key)
    \/ \E key \in Keys, t \in ClockReadings : startWatchingAddEvent(key, t)
    \/ \E key \in Keys, c \in 1..limits.clients : startWatchingSend(key, c)
    \/ \E key \in Keys : startWatchingUnlock(key)
    \/ \E id \in 1..limits.clients : sendInitialStateListFails(id)
    \/ \E id \in 1..limits.clients, r \in limits.lists :
          sendInitialStateList(id, r)
    \/ \E id \in 1..limits.clients : sendInitialStateLock(id)
    \/ \E id \in 1..limits.clients, t \in ClockReadings :
          sendInitialStateAddEvent(id, t)
    \/ \E id \in 1..limits.clients : sendHistoryEventsRLock(id)
    \/ \E id \in 1..limits.clients : sendHistoryEventsGetEventsAfter(id)
    \/ \E id \in 1..limits.clients : populationSend(id)
    \/ \E id \in 1..limits.clients : populationTimeout(id)
    \/ \E id \in 1..limits.clients : populationSendError(id)
    \/ \E id \in 1..limits.clients : ConsumerReceive(id)

\* The goroutines are scheduled: one that holds a lock goes on, and one
\* that waits for EventStore.mu gets it when it is free again and again
\* (sync.Mutex hands a starving waiter the lock).
SpecLocks ==
    /\ InitLocks
    /\ [][NextLocks]_vars
    /\ \A key \in Keys :
          /\ WF_vars(startWatchingRLock(key))
          /\ SF_vars(IngestLockedStep(key))
    /\ \A id \in 1..LocksClients :
          /\ SF_vars(sendInitialStateLock(id))
          /\ SF_vars(sendHistoryEventsRLock(id))
          /\ WF_vars(TaskStoreStep(id))

\* The goroutines that hold EventStore.mu.
StoreHolders ==
    (IF storeMu.writer = "" THEN {} ELSE {storeMu.writer})
        \cup storeMu.readers

\* startWatching of key waits in EventStore.mu.Lock().
IngestWaits(key) == key \in DOMAIN ingest /\ ingest[key].pc = "AddEvent"

\* The population goroutine of client id waits in EventStore.mu.Lock() or
\* in EventStore.mu.RLock().
TaskWaits(id) == id \in DOMAIN tasks /\ tasks[id].pc \in {"add", "get"}

\* The population goroutine of client id is at a send on its queue.
TaskAtQueue(id) == id \in DOMAIN tasks /\ tasks[id].pc \in {"offer", "error"}

\* C32: no goroutine waits for ever on WatchServer.mu or on EventStore.mu:
\* a callers of RegisterWatcher, Watch or Unwatch, which waits while
\* startWatching holds the read lock, sees it released; startWatching,
\* which waits for the store with the read lock held, and the population
\* goroutines get the store; every holder of the store releases it; and no
\* population goroutine is at a send on its queue with the store locked.
\* (A panic ends the process and its waiting.)
C32_NoWaitForEverOnLocks ==
    /\ (rlock # {}) ~> (rlock = {} \/ panicked)
    /\ (StoreHolders # {}) ~> (StoreHolders = {} \/ panicked)
    /\ \A key \in Keys :
          IngestWaits(key) ~> (~IngestWaits(key) \/ panicked)
    /\ \A id \in 1..LocksClients :
          TaskWaits(id) ~> (~TaskWaits(id) \/ panicked)
    /\ [](\A id \in 1..LocksClients :
             TaskName(id) \in StoreHolders => ~TaskAtQueue(id))

\* C32 witness: startWatching holds the server's read lock and waits for
\* the store, which a population goroutine holds.
C32_Witness ==
    /\ ~panicked
    /\ \E key \in rlock : IngestWaits(key)
    /\ \E id \in 1..LocksClients : TaskName(id) \in StoreHolders

\* ------------------------------------ snapshots with a second subscriber

SharedClients == 2
SharedEmit == 1

\* The scenario of SpecShared: two subscribers of one key, with or without
\* a checkpoint, whose List returns one item.
InitShared ==
    /\ InitEventStore
    /\ InitWatchServer
    /\ storeRet = NoStoreCall
    /\ limits = [keys |-> MaxKeys, clients |-> SharedClients,
                 emit |-> SharedEmit, lists |-> {<<"a">>}, replay |-> TRUE]

\* The steps of Next in which no caller unsubscribes, the observer's Watch
\* and List succeed and its stream stays open.
NextShared ==
    \/ \E key \in Keys, watcher \in Watchers :
          /\ key \in DOMAIN watchers \/ watcher = "w1"
          /\ key = "k1" \/ "k1" \in DOMAIN watchers
          /\ RegisterWatcher(key, watcher)
    \/ \E key \in Keys : \E rv \in Checkpoints(key) : Watch(key, rv)
    \/ \E key \in Keys : startWatchingWatch(key)
    \/ \E key \in Keys : ObserverEmit(key)
    \/ \E key \in Keys, t \in ClockReadings : startWatchingStore(key, t)
    \/ \E key \in Keys, c \in 1..limits.clients : startWatchingSend(key, c)
    \/ \E key \in Keys : startWatchingUnlock(key)
    \/ \E id \in 1..limits.clients, r \in limits.lists :
          sendInitialStateList(id, r)
    \/ \E id \in 1..limits.clients, t \in ClockReadings :
          sendInitialStateAdd(id, t)
    \/ \E id \in 1..limits.clients : populationSend(id)
    \/ \E id \in 1..limits.clients : populationTimeout(id)
    \/ \E id \in 1..limits.clients : populationSendError(id)
    \/ \E id \in 1..limits.clients : sendHistoryEventsGet(id)
    \/ \E id \in 1..limits.clients : ConsumerReceive(id)

SpecShared == InitShared /\ [][NextShared]_vars

\* The entries sendInitialState made that came to c's queue out of the log.
SnapshotReplayed(c) == SelectSeq(Enqueued(c), IsSnapshotEntry)

\* The ADDED events c's own sendInitialState has put on c's queue or given
\* up: one per item it has stored, less the one it is offering.
OwnOffers(c) ==
    Len(Processed(c)) - (IF tasks[c].pc = "offer" THEN 1 ELSE 0)

HandlesKeys == 2
HandlesClients == 2
HandlesEmit == 1

\* The scenario of SpecHandles: two keys, two subscribers in all, without
\* checkpoint, whose List returns nothing.
InitHandles ==
    /\ InitEventStore
    /\ InitWatchServer
    /\ storeRet = NoStoreCall
    /\ limits = [keys |-> HandlesKeys, clients |-> HandlesClients,
                 emit |-> HandlesEmit, lists |-> {<<>>}, replay |-> FALSE]

SpecHandles == InitHandles /\ [][NextKeys]_vars

\* The queue of one client id is registered under one key only.
OneKeyPerClient(cl) ==
    \A k1 \in DOMAIN cl, k2 \in DOMAIN cl : k1 # k2 => cl[k1] \cap cl[k2] = {}

\* C34: the client ids successful calls of Watch return on one server are
\* pairwise distinct across all keys and grow from call to call: each is
\* greater than every id returned before, and the queue made with it is a
\* new one, registered under the key of the call only.  So Unwatch(key, id)
\* closes at most the one queue that was made together with id: a step that
\* closes a queue takes its id out of the one key it was registered under
\* and leaves every other queue as it was.
C34_ClientIDsDistinctAndGrowing ==
    [][/\ (apiRet' # apiRet /\ apiRet'.op = "Watch" /\ apiRet'.err = "")
           => /\ \A c \in DOMAIN chans : c < apiRet'.id
              /\ DOMAIN chans' = DOMAIN chans \cup {apiRet'.id}
              /\ \A c \in DOMAIN chans : chans'[c] = chans[c]
              /\ \A k \in DOMAIN clients' :
                    apiRet'.id \in clients'[k] <=> k = apiRet'.key
       /\ OneKeyPerClient(clients')
       /\ \A c \in DOMAIN chans :
             (~chans[c].closed /\ chans'[c].closed)
                => /\ \E k \in DOMAIN clients :
                         /\ c \in clients[k]
                         /\ clients' = [clients EXCEPT ![k] = @ \ {c}]
                   /\ \A d \in DOMAIN chans \ {c} : chans'[d] = chans[d]
      ]_vars

\* C34 witness: two subscribers of different keys hold the ids 1 and 2, and
\* Unwatch with the second key and id 2 has closed the second queue and
\* left the first open.
C34_Witness ==
    /\ DOMAIN chans = {1, 2}
    /\ "k1" \in DOMAIN clients /\ clients["k1"] = {1}
    /\ "k2" \in DOMAIN clients /\ clients["k2"] = {}
    /\ tasks[2].key = "k2"
    /\ chans[2].closed
    /\ ~chans[1].closed

\* ------------------------------------- FileWatcher: comparing two scans

MaxScans == 2

\* The files a scan may find under FileWatcher.path.
Paths == {"p", "q"}

\* FileState{Size, ModTime, Checksum}: a state and the three states that
\* differ from it in one field.
FileStates ==
    {[Size |-> 1, ModTime |-> 1, Checksum |-> "c1"],
     [Size |-> 2, ModTime |-> 1, Checksum |-> "c1"],
     [Size |-> 1, ModTime |-> 2, Checksum |-> "c1"],
     [Size |-> 1, ModTime |-> 1, Checksum |-> "c2"]}

\* map[string]FileState over Paths.
StateMaps == UNION {[S -> FileStates] : S \in SUBSET Paths}

\* What scanPath(w.path) may return: a state map, or nil and an error.
ScanErr == "failed to access path dir"
ScanResults ==
    {[err |-> "", state |-> m] : m \in StateMaps}
        \cup {[err |-> ScanErr, state |-> <<>>]}

\* fmt.Errorf("%s: %w", message, err).Error()
Errorf(message, err) == message \o ": " \o err

\* fmt.Sprintf("Failed to scan path %s", w.path)
ScanMessage == "Failed to scan path dir"

\* oldState.Size != state.Size || oldState.ModTime != state.ModTime ||
\* oldState.Checksum != state.Checksum
SizeDiffers(oldState, state) == oldState.Size # state.Size
StateDiffers(oldState, state) ==
    \/ oldState.Size # state.Size
    \/ oldState.ModTime # state.ModTime
    \/ oldState.Checksum # state.Checksum

\* if err != nil, on what scanPath returned.
ScanNeverFailed(r) == FALSE
ScanFailed(r) == r.err # ""

\* Where detectChanges is with the paths both range loops have left.
CompareAt(current, last) ==
    IF current # {} THEN "current"
    ELSE IF last # {} THEN "last"
    ELSE "assign"

\* A FileWatcher whose Watch has run: scanFiles stored the first scan, the
\* channel is made, no tick yet; the files may have changed since.
InitFile ==
    /\ InitEventStore
    /\ NewWatchServer
    /\ storeRet = NoStoreCall
    /\ limits = NoLimits
    /\ NoRunner /\ NoProxy /\ NoAuthServer
    /\ lastState \in StateMaps
    /\ disk \in ScanResults
    /\ detect = [pc |-> "idle", currentState |-> <<>>, current |-> {},
                 last |-> {}, sent |-> <<>>, scans |-> 0]
    /\ eventCh = [buf |-> <<>>, closed |-> FALSE]

\* Files are written, touched, created and removed between two ticks, or
\* the path becomes unreadable or readable again.
FilesChange(r) ==
    /\ detect.pc = "idle"
    /\ detect.scans < MaxScans
    /\ r # disk
    /\ disk' = r
    /\ UNCHANGED <<lastState, detect, eventCh>>
    /\ UNCHANGED <<serviceVars, runnerVars, proxyVars, authVars>>

\* detectChanges: currentState, err := scanPath(w.path); on an error the
\* call goes to handleError, else compareStates starts its first range.
detectChangesScan ==
    /\ detect.pc = "idle"
    /\ detect.scans < MaxScans
    /\ detect' =
          IF ScanFailed(disk)
          THEN [pc |-> "handleError", currentState |-> disk.state,
                current |-> {}, last |-> {}, sent |-> <<>>,
                scans |-> detect.scans + 1]
          ELSE [pc |-> CompareAt(DOMAIN disk.state, DOMAIN lastState),
                currentState |-> disk.state,
                current |-> DOMAIN disk.state,
                last |-> DOMAIN lastState,
                sent |-> <<>>,
                scans |-> detect.scans + 1]
    /\ UNCHANGED <<lastState, disk, eventCh>>
    /\ UNCHANGED <<serviceVars, runnerVars, proxyVars, authVars>>

\* handleError with a channel: eventCh <- Event{Type: Error, ...}, a plain
\* send that waits for room; then detectChanges returns.
detectChangesHandleError ==
    /\ detect.pc = "handleError"
    /\ Len(eventCh.buf) < EventChCap
    /\ eventCh' = [eventCh EXCEPT !.buf =
          Append(@, [Type |-> Error,
                     Object |-> Errorf(ScanMessage, disk.err)])]
    /\ detect' = [detect EXCEPT
          !.pc = "idle",
          !.sent = Append(@, [Type |-> Error,
                              Object |-> Errorf(ScanMessage, disk.err)])]
    /\ UNCHANGED <<lastState, disk>>
    /\ UNCHANGED <<serviceVars, runnerVars, proxyVars, authVars>>

\* What one iteration of for path, state := range currentState sends for
\* path: nothing, ADDED or MODIFIED.
CurrentEvents(path) ==
    IF path \notin DOMAIN lastState
    THEN <<[Type |-> Added, Object |-> path]>>
    ELSE IF StateDiffers(lastState[path], detect.currentState[path])
    THEN <<[Type |-> Modified, Object |-> path]>>
    ELSE <<>>

\* What one iteration of for path := range lastState sends for path:
\* nothing or DELETED.
LastEvents(path) ==
    IF path \notin DOMAIN detect.currentState
    THEN <<[Type |-> Deleted, Object |-> path]>>
    ELSE <<>>

\* compareStates: one iteration of the range over currentState, in the
\* map's order, which is any order; its send waits for room.
compareStatesCurrent(path) ==
    /\ detect.pc = "current"
    /\ path \in detect.current
    /\ Len(eventCh.buf) + Len(CurrentEvents(path)) <= EventChCap
    /\ eventCh' = [eventCh EXCEPT !.buf = @ \o CurrentEvents(path)]
    /\ detect' = [detect EXCEPT
          !.pc = CompareAt(detect.current \ {path}, detect.last),
          !.current = @ \ {path},
          !.sent = @ \o CurrentEvents(path)]
    /\ UNCHANGED <<lastState, disk>>
    /\ UNCHANGED <<serviceVars, runnerVars, proxyVars, authVars>>

\* compareStates: one iteration of the range over lastState.
compareStatesLast(path) ==
    /\ detect.pc = "last"
    /\ path \in detect.last
    /\ Len(eventCh.buf) + Len(LastEvents(path)) <= EventChCap
    /\ eventCh' = [eventCh EXCEPT !.buf = @ \o LastEvents(path)]
    /\ detect' = [detect EXCEPT
          !.pc = CompareAt({}, detect.last \ {path}),
          !.last = @ \ {path},
          !.sent = @ \o LastEvents(path)]
    /\ UNCHANGED <<lastState, disk>>
    /\ UNCHANGED <<serviceVars, runnerVars, proxyVars, authVars>>

\* detectChanges: w.lastState = currentState, and the call returns.
detectChangesAssign ==
    /\ detect.pc = "assign"
    /\ lastState' = detect.currentState
    /\ detect' = [detect EXCEPT !.pc = "idle"]
    /\ UNCHANGED <<disk, eventCh>>
    /\ UNCHANGED <<serviceVars, runnerVars, proxyVars, authVars>>

\* The reader of the channel takes the next event off it.
FileEventReceive ==
    /\ eventCh.buf # <<>>
    /\ eventCh' = [eventCh EXCEPT !.buf = Tail(@)]
    /\ UNCHANGED <<lastState, disk, detect>>
    /\ UNCHANGED <<serviceVars, runnerVars, proxyVars, authVars>>

NextFile ==
    \/ \E r \in ScanResults : FilesChange(r)
    \/ detectChangesScan
    \/ detectChangesHandleError
    \/ \E path \in Paths : compareStatesCurrent(path)
    \/ \E path \in Paths : compareStatesLast(path)
    \/ detectChangesAssign
    \/ FileEventReceive

SpecFile == InitFile /\ [][NextFile]_vars

\* The events of the call in progress that are of type and name path.
SentFor(type, path) ==
    {i \in 1..Len(detect.sent) :
        detect.sent[i] = [Type |-> type, Object |-> path]}

\* The events of the call in progress that name path.
SentAbout(path) ==
    {i \in 1..Len(detect.sent) : detect.sent[i].Object = path}

\* How many events of type compareStates owes path.
Owed(type, path) ==
    IF /\ type = Added
       /\ path \in DOMAIN detect.currentState
       /\ path \notin DOMAIN lastState
    THEN 1
    ELSE IF /\ type = Modified
            /\ path \in DOMAIN detect.currentState
            /\ path \in DOMAIN lastState
            /\ detect.currentState[path] # lastState[path]
    THEN 1
    ELSE IF /\ type = Deleted
            /\ path \notin DOMAIN detect.currentState
            /\ path \in DOMAIN lastState
    THEN 1
    ELSE 0

\* C35: when compareStates has returned, it has sent one ADDED event for
\* each path of the current map only, one MODIFIED event for each path of
\* both maps whose size, modification time or checksum differs, one
\* DELETED event for each path of the previous map only, and nothing else:
\* no event for a path whose state is the same in both.
C35_OneEventPerChangedPath ==
    detect.pc = "assign"
        => \A path \in Paths :
              /\ \A type \in {Added, Modified, Deleted} :
                    Cardinality(SentFor(type, path)) = Owed(type, path)
              /\ Cardinality(SentAbout(path)) =
                    Owed(Added, path) + Owed(Modified, path)
                        + Owed(Deleted, path)

\* C35 witness: compareStates has returned after one MODIFIED event for a
\* file whose size and checksum stayed and whose modification time
\* differs, and no event for the other file, which is unchanged.
C35_Witness ==
    /\ detect.pc = "assign"
    /\ DOMAIN lastState = Paths
    /\ DOMAIN detect.currentState = Paths
    /\ \E path \in Paths :
          /\ lastState[path].ModTime # detect.currentState[path].ModTime
          /\ lastState[path].Size = detect.currentState[path].Size
          /\ lastState[path].Checksum = detect.currentState[path].Checksum
          /\ detect.sent = <<[Type |-> Modified, Object |-> path]>>
          /\ \A other \in Paths \ {path} :
                lastState[other] = detect.currentState[other]

\* C36: a call of detectChanges whose scan fails sends one Error event,
\* nothing else, and returns with lastState as it was, so the next scan
\* that succeeds is compared with the last state that was scanned
\* successfully; a call whose scan succeeds returns with lastState equal to
\* the state it scanned; and no other step writes lastState.
C36_LastStateFollowsSuccessfulScans ==
    [][/\ (detect.pc = "handleError" /\ detect'.pc = "idle")
           => /\ detect'.sent =
                    <<[Type |-> Error,
                       Object |-> Errorf(ScanMessage, ScanErr)]>>
              /\ eventCh'.buf = eventCh.buf \o detect'.sent
              /\ lastState' = lastState
       /\ (detect.pc # "idle" /\ detect'.pc = "idle"
              /\ detect.pc # "handleError")
           => /\ disk.err = ""
              /\ lastState' = disk.state
              /\ \A i \in 1..Len(detect'.sent) : detect'.sent[i].Type # Error
       /\ (detect.pc = "idle" /\ detect'.pc # "idle")
           => /\ disk.err # "" <=> detect'.pc = "handleError"
              /\ disk.err = "" =>
                    detect'.last = DOMAIN lastState
       /\ lastState' # lastState => detect.pc = "assign"
      ]_vars

\* C36 witness: the first scan failed and its call has returned, the files
\* became readable and changed, and the second call, which compares with
\* the state stored before the failure, has sent an event and stored the
\* state it scanned.
C36_Witness ==
    /\ detect.scans = 2
    /\ detect.pc = "idle"
    /\ disk.err = ""
    /\ lastState = disk.state
    /\ Len(detect.sent) = 2
    /\ Len(eventCh.buf) = 3
    /\ eventCh.buf[1].Type = Error

\* --------------------------------------------------------- CommandRunner

MaxCommands == 2
MaxLines == 1

\* What running one Command does: whether StdoutPipe, StderrPipe and Start
\* succeed, how many lines the process writes to its standard output, and
\* what cmd.Wait returns: nil, an *exec.ExitError, or another error.
Outcomes ==
    {[start |-> FALSE, lines |-> 0, wait |-> "nil"]}
        \cup {[start |-> TRUE, lines |-> n, wait |-> e] :
                 n \in 0..MaxLines, e \in {"nil", "ExitError", "error"}}

\* The command lists of at most MaxCommands commands.
CommandLists == UNION {[1..n -> Outcomes] : n \in 0..MaxCommands}

\* A *CmdStatus: nil, or the isSuccess of what it points to.
NilStatus == [nil |-> TRUE, isSuccess |-> FALSE]
Status(isSuccess) == [nil |-> FALSE, isSuccess |-> isSuccess]

\* NewCommandRunner(commands): the three channels unbuffered and open,
\* wg.Add(3), the display hidden with an empty buffer; no goroutine yet.
InitRunner ==
    /\ InitEventStore
    /\ NewWatchServer
    /\ storeRet = NoStoreCall
    /\ limits = NoLimits
    /\ NoFileWatcher /\ NoProxy /\ NoAuthServer
    /\ \E commands \in CommandLists :
          /\ cmdRunner = [Commands |-> commands, run |-> "new", wg |-> 3,
                          output |-> "open", done |-> "open",
                          clear |-> "open"]
          /\ display = [cmdCnt |-> Len(commands), doneCnt |-> 0,
                        isHidden |-> TRUE, prevLines |-> 0, buffer |-> <<>>]
    /\ routines = [runCommands |-> [pc |-> "new", i |-> 1, lines |-> 0,
                                    status |-> NilStatus, err |-> ""],
                   refreshBuffer |-> [pc |-> "new"],
                   update |-> [pc |-> "new", status |-> NilStatus]]

\* Run: the three go statements; Run itself is at r.wg.Wait().
Run ==
    /\ cmdRunner.run = "new"
    /\ cmdRunner' = [cmdRunner EXCEPT !.run = "wait"]
    /\ routines' = [routines EXCEPT !.runCommands.pc = "range",
                                    !.refreshBuffer.pc = "range",
                                    !.update.pc = "select"]
    /\ UNCHANGED display
    /\ UNCHANGED <<serviceVars, fileVars, proxyVars, authVars>>

\* runCommands: for _, cmd := range r.Commands, the next command or the
\* end of the list.
runCommandsRange ==
    /\ routines.runCommands.pc = "range"
    /\ routines' = [routines EXCEPT !.runCommands.pc =
          IF routines.runCommands.i > Len(cmdRunner.Commands)
          THEN "return" ELSE "runCommand"]
    /\ UNCHANGED <<cmdRunner, display>>
    /\ UNCHANGED <<serviceVars, fileVars, proxyVars, authVars>>

\* if err != nil { return err } after StdoutPipe, StderrPipe and Start.
Started(cmd) == cmd.start

\* runCommand: the pipes and cmd.Start(); when one of them fails runCommand
\* returns the error, with nothing sent on r.done, and runCommands is at
\* <-r.d.clear.
runCommandStart ==
    /\ routines.runCommands.pc = "runCommand"
    /\ LET cmd == cmdRunner.Commands[routines.runCommands.i] IN
       routines' = [routines EXCEPT
          !.runCommands.pc = IF Started(cmd) THEN "scan" ELSE "clear",
          !.runCommands.lines = cmd.lines,
          !.runCommands.err = IF Started(cmd) THEN "" ELSE "start"]
    /\ UNCHANGED <<cmdRunner, display>>
    /\ UNCHANGED <<serviceVars, fileVars, proxyVars, authVars>>

\* d.buffer = append(d.buffer, line); if len(d.buffer) > 6 { d.buffer =
\* d.buffer[1:] }
BufferAppend(buffer, line) ==
    IF Len(buffer) + 1 > 6 THEN Tail(Append(buffer, line))
    ELSE Append(buffer, line)

\* runCommand: r.output <- scanner.Text(), taken by refreshBuffer at its
\* range over d.output, which appends the line under bufferMutex.
runCommandOutput ==
    /\ routines.runCommands.pc = "scan"
    /\ routines.runCommands.lines > 0
    /\ routines.refreshBuffer.pc = "range"
    /\ routines' = [routines EXCEPT !.runCommands.lines = @ - 1]
    /\ display' = [display EXCEPT !.buffer = BufferAppend(@, "line")]
    /\ UNCHANGED cmdRunner
    /\ UNCHANGED <<serviceVars, fileVars, proxyVars, authVars>>

\* runCommand: the output is at its end, stderr is read, cmd.Wait(); an
\* *exec.ExitError makes the status of a failure, nil and any other error
\* that of a success.
runCommandWait ==
    /\ routines.runCommands.pc = "scan"
    /\ routines.runCommands.lines = 0
    /\ routines' = [routines EXCEPT
          !.runCommands.pc = "done",
          !.runCommands.status =
              Status(cmdRunner.Commands[routines.runCommands.i].wait
                        # "ExitError")]
    /\ UNCHANGED <<cmdRunner, display>>
    /\ UNCHANGED <<serviceVars, fileVars, proxyVars, authVars>>

\* runCommand: r.done <- &CmdStatus{...}, taken by update at its select;
\* runCommand returns and runCommands is at <-r.d.clear.
runCommandDone ==
    /\ routines.runCommands.pc = "done"
    /\ routines.update.pc = "select"
    /\ routines' = [routines EXCEPT
          !.runCommands.pc = "clear",
          !.runCommands.err =
              IF routines.runCommands.status.isSuccess THEN "" ELSE "exit",
          !.update.pc = "cleanUp",
          !.update.status = routines.runCommands.status]
    /\ UNCHANGED <<cmdRunner, display>>
    /\ UNCHANGED <<serviceVars, fileVars, proxyVars, authVars>>

\* update: case <-d.ticker.C: d.print(), under bufferMutex.
updateTick ==
    /\ routines.update.pc = "select"
    /\ display' = [display EXCEPT
          !.isHidden = IF Len(display.buffer) > 0 THEN FALSE ELSE @,
          !.prevLines = Len(display.buffer)]
    /\ UNCHANGED <<cmdRunner, routines>>
    /\ UNCHANGED <<serviceVars, fileVars, proxyVars, authVars>>

\* update: case status := <-d.done, on the closed channel: status is nil.
updateDoneClosed ==
    /\ routines.update.pc = "select"
    /\ cmdRunner.done = "closed"
    /\ routines' = [routines EXCEPT !.update.pc = "cleanUp",
                                    !.update.status = NilStatus]
    /\ UNCHANGED <<cmdRunner, display>>
    /\ UNCHANGED <<serviceVars, fileVars, proxyVars, authVars>>

\* cleanUp: under bufferMutex the lines are wiped when some are shown;
\* then it is at d.clear <- struct{}{}.
cleanUp ==
    /\ routines.update.pc = "cleanUp"
    /\ display' =
          IF ~display.isHidden
          THEN [display EXCEPT !.prevLines = 0, !.buffer = <<>>,
                               !.isHidden = TRUE]
          ELSE display
    /\ routines' = [routines EXCEPT !.update.pc = "clear"]
    /\ UNCHANGED cmdRunner
    /\ UNCHANGED <<serviceVars, fileVars, proxyVars, authVars>>

\* runCommands: <-r.d.clear, which takes what cleanUp sends, or the zero
\* value once the channel is closed; then break on an error, else the next
\* command.  cleanUp returns to update after its send.
runCommandsClear ==
    /\ routines.runCommands.pc = "clear"
    /\ cmdRunner.clear = "closed" \/ routines.update.pc = "clear"
    /\ routines' = [routines EXCEPT
          !.runCommands.pc =
              IF routines.runCommands.err # "" THEN "return" ELSE "range",
          !.runCommands.i =
              IF routines.runCommands.err # "" THEN @ ELSE @ + 1,
          !.update.pc =
              IF cmdRunner.clear = "closed" THEN @ ELSE "check"]
    /\ UNCHANGED <<cmdRunner, display>>
    /\ UNCHANGED <<serviceVars, fileVars, proxyVars, authVars>>

\* update: d.doneCnt++; if !status.isSuccess || d.doneCnt == d.cmdCnt
\* { return }; status.isSuccess on a nil status is a nil dereference.
updateCheck ==
    /\ routines.update.pc = "check"
    /\ IF routines.update.status.nil
       THEN /\ routines' = [routines EXCEPT !.update.pc = "panic"]
            /\ display' = [display EXCEPT !.doneCnt = @ + 1]
       ELSE /\ display' = [display EXCEPT !.doneCnt = @ + 1]
            /\ routines' = [routines EXCEPT !.update.pc =
                  IF \/ ~routines.update.status.isSuccess
                     \/ display.doneCnt + 1 = display.cmdCnt
                  THEN "return" ELSE "select"]
    /\ UNCHANGED cmdRunner
    /\ UNCHANGED <<serviceVars, fileVars, proxyVars, authVars>>

\* update returns: defer close(d.clear), defer d.wg.Done().
updateReturn ==
    /\ routines.update.pc = "return"
    /\ cmdRunner' = [cmdRunner EXCEPT !.clear = "closed", !.wg = @ - 1]
    /\ routines' = [routines EXCEPT !.update.pc = "finished"]
    /\ UNCHANGED display
    /\ UNCHANGED <<serviceVars, fileVars, proxyVars, authVars>>

\* runCommands returns: defer close(r.done), defer close(r.output), defer
\* r.wg.Done().
runCommandsReturn ==
    /\ routines.runCommands.pc = "return"
    /\ cmdRunner' = [cmdRunner EXCEPT !.done = "closed", !.output = "closed",
                                      !.wg = @ - 1]
    /\ routines' = [routines EXCEPT !.runCommands.pc = "finished"]
    /\ UNCHANGED display
    /\ UNCHANGED <<serviceVars, fileVars, proxyVars, authVars>>

\* refreshBuffer: d.output is closed, the range ends, defer d.wg.Done().
refreshBufferReturn ==
    /\ routines.refreshBuffer.pc = "range"
    /\ cmdRunner.output = "closed"
    /\ cmdRunner' = [cmdRunner EXCEPT !.wg = @ - 1]
    /\ routines' = [routines EXCEPT !.refreshBuffer.pc = "finished"]
    /\ UNCHANGED display
    /\ UNCHANGED <<serviceVars, fileVars, proxyVars, authVars>>

\* Run: r.wg.Wait() returns when the counter is zero.
RunReturn ==
    /\ cmdRunner.run = "wait"
    /\ cmdRunner.wg = 0
    /\ cmdRunner' = [cmdRunner EXCEPT !.run = "returned"]
    /\ UNCHANGED <<display, routines>>
    /\ UNCHANGED <<serviceVars, fileVars, proxyVars, authVars>>

\* The steps of Run and its goroutines beside the ticks of the display.
RunnerStep ==
    \/ Run
    \/ runCommandsRange
    \/ runCommandStart
    \/ runCommandOutput
    \/ runCommandWait
    \/ runCommandDone
    \/ updateDoneClosed
    \/ cleanUp
    \/ runCommandsClear
    \/ updateCheck
    \/ updateReturn
    \/ runCommandsReturn
    \/ refreshBufferReturn
    \/ RunReturn

NextRunner == RunnerStep \/ updateTick

\* Run is called, every goroutine that can go on does, and every process
\* that was started ends.
SpecRunner == InitRunner /\ [][NextRunner]_vars /\ WF_vars(RunnerStep)

\* Run has returned and its three goroutines have finished.
RunReturned ==
    /\ cmdRunner.run = "returned"
    /\ routines.runCommands.pc = "finished"
    /\ routines.refreshBuffer.pc = "finished"
    /\ routines.update.pc = "finished"

\* C37: Run returns in the end for every command list, with runCommands,
\* refreshBuffer and update finished.
C37_RunReturns == <>RunReturned

\* update waits in cleanUp to send on d.clear after runCommands has
\* returned, or runCommands waits at <-r.d.clear for a cleanUp that no
\* status will start: nothing is left that could go on but the ticker.
RunStuck ==
    /\ cmdRunner.run = "wait"
    /\ ~ENABLED RunnerStep

\* ----------------------------------------- OracleProxy.getActiveBackend

MaxBackends == 2

\* The goroutines Start makes for the connections it accepts.
ProxyHandlers == {"h1", "h2"}

\* errors.New("no available route found")
ErrNoRoute == "no available route found"

\* What getActiveBackend returned: the index of the backend, or none (-1)
\* and the error.
NoBackend == [idx |-> -1, err |-> ErrNoRoute]
Backend(i) == [idx |-> i, err |-> ""]

\* An OracleProxy with MaxBackends backends, listed by priority, whose
\* health checks run: each backend may be available or not; no connection
\* yet.
InitProxy ==
    /\ InitEventStore
    /\ NewWatchServer
    /\ storeRet = NoStoreCall
    /\ limits = NoLimits
    /\ NoFileWatcher /\ NoRunner /\ NoAuthServer
    /\ backends \in [1..MaxBackends -> BOOLEAN]
    /\ pMutex = [writer |-> "", readers |-> {}, waiting |-> {}]
    /\ currentIdx = 0
    /\ handlers = [h \in ProxyHandlers |->
                      [pc |-> "idle", i |-> 0, ret |-> NoBackend]]

\* performHealthCheck: under backend.Mutex.Lock the backend is marked
\* available or not.
performHealthCheck(b, ok) ==
    /\ backends[b] # ok
    /\ backends' = [backends EXCEPT ![b] = ok]
    /\ UNCHANGED <<pMutex, currentIdx, handlers>>
    /\ UNCHANGED <<serviceVars, fileVars, runnerVars, authVars>>

\* handleClient calls getActiveBackend, which is at p.Mutex.RLock().
handleClient(h) ==
    /\ handlers[h].pc = "idle"
    /\ handlers' = [handlers EXCEPT ![h].pc = "RLock"]
    /\ UNCHANGED <<backends, pMutex, currentIdx>>
    /\ UNCHANGED <<serviceVars, fileVars, runnerVars, authVars>>

\* p.Mutex.RLock() returns when no goroutine holds the sync.RWMutex for
\* writing and none is blocked in Lock.
PCanRLock(h) == pMutex.writer = "" /\ pMutex.waiting = {}

\* p.Mutex.Lock() returns when no goroutine holds the sync.RWMutex, the
\* caller included: a read lock is not upgraded.
PCanLock(h) == pMutex.writer = "" /\ pMutex.readers = {}

\* getActiveBackend: p.Mutex.RLock(), defer p.Mutex.RUnlock(); the range
\* over p.Backends starts at index 0.
getActiveBackendRLock(h) ==
    /\ handlers[h].pc = "RLock"
    /\ PCanRLock(h)
    /\ pMutex' = [pMutex EXCEPT !.readers = @ \cup {h}]
    /\ handlers' = [handlers EXCEPT ![h].pc = "range", ![h].i = 0]
    /\ UNCHANGED <<backends, currentIdx>>
    /\ UNCHANGED <<serviceVars, fileVars, runnerVars, authVars>>

\* getActiveBackend, from the range loop on: an iteration reads
\* backend.IsAvailable under the backend's read lock and goes to the next
\* backend or to p.Mutex.Lock(); after the last backend the error is
\* returned and the read lock released.  At p.Mutex.Lock() the goroutine
\* goes on when it gets the lock: p.CurrentIdx = i, Unlock, return backend,
\* and the deferred RUnlock.
getActiveBackendRange(h) ==
    /\ handlers[h].pc \in {"range", "Lock"}
    /\ IF handlers[h].pc = "Lock"
       THEN /\ PCanLock(h)
            /\ currentIdx' = handlers[h].i
            /\ pMutex' = [pMutex EXCEPT !.readers = @ \ {h},
                                        !.waiting = @ \ {h}]
            /\ handlers' = [handlers EXCEPT
                  ![h].pc = "returned", ![h].ret = Backend(handlers[h].i)]
       ELSE IF handlers[h].i >= Len(backends)
       THEN /\ pMutex' = [pMutex EXCEPT !.readers = @ \ {h}]
            /\ handlers' = [handlers EXCEPT
                  ![h].pc = "returned", ![h].ret = NoBackend]
            /\ UNCHANGED currentIdx
       ELSE IF backends[handlers[h].i + 1]
       THEN /\ pMutex' = [pMutex EXCEPT !.waiting = @ \cup {h}]
            /\ handlers' = [handlers EXCEPT ![h].pc = "Lock"]
            /\ UNCHANGED currentIdx
       ELSE /\ handlers' = [handlers EXCEPT ![h].i = @ + 1]
            /\ UNCHANGED <<pMutex, currentIdx>>
    /\ UNCHANGED backends
    /\ UNCHANGED <<serviceVars, fileVars, runnerVars, authVars>>

\* A step of the call of getActiveBackend by handler h.
getActiveBackend(h) == getActiveBackendRLock(h) \/ getActiveBackendRange(h)

NextProxy ==
    \/ \E b \in 1..MaxBackends, ok \in BOOLEAN : performHealthCheck(b, ok)
    \/ \E h \in ProxyHandlers : handleClient(h)
    \/ \E h \in ProxyHandlers : getActiveBackendRLock(h)
    \/ \E h \in ProxyHandlers : getActiveBackendRange(h)

\* The handlers are scheduled: a call that can go on does.
SpecProxy ==
    /\ InitProxy
    /\ [][NextProxy]_vars
    /\ \A h \in ProxyHandlers : WF_vars(getActiveBackend(h))

\* Handler h is in a call that holds the read lock and has found an
\* available backend.
FoundAvailable(h) == handlers[h].pc = "Lock"

\* C38: a call of getActiveBackend that finds a backend marked available
\* completes, returning that backend, the first of the list that was
\* available when the loop read it, with its index stored in CurrentIdx;
\* a call that returns no backend returns the no-available-route error.
C38_CallReturnsFirstAvailable ==
    /\ \A h \in ProxyHandlers :
          FoundAvailable(h) ~> (handlers[h].pc = "returned")
    /\ [][\A h \in ProxyHandlers :
             (handlers[h].pc # "returned" /\ handlers'[h].pc = "returned")
                => \/ /\ handlers'[h].ret = Backend(handlers[h].i)
                      /\ currentIdx' = handlers[h].i
                   \/ handlers'[h].ret = NoBackend]_vars

\* A call waits in p.Mutex.Lock() for the read lock it holds itself.
LockedOut ==
    \E h \in ProxyHandlers :
        /\ handlers[h].pc = "Lock"
        /\ h \in pMutex.readers
        /\ ~ENABLED getActiveBackend(h)

\* ------------------------------------- mock OAuth server: tokenHandler

MaxAuthTime == 2

\* authCode.ExpiresAt = time.Now().Add(10 * time.Minute), in ticks of ten
\* minutes.
CodeTTL == 1

\* The token requests in flight at the same time: net/http runs each
\* handler in a goroutine of its own, and AuthServer has no mutex.
TokenRequests == {"r1", "r2"}

\* What generateRandomString(32) may return.
CodeValues == {"code1", "code2"}

\* The one client and the redirect URI NewAuthServer registers.
ClientID == "client1"
ClientSecret == "secret1"
RedirectURI == "http://localhost:8080/login/oauth2/code/custom-auth-server"

\* The forms a token request may carry.
Forms ==
    [method : {"POST", "GET"},
     grant_type : {"authorization_code", "password"},
     code : CodeValues,
     redirect_uri : {RedirectURI, "http://other"},
     client_id : {ClientID, "client2"},
     client_secret : {ClientSecret, "wrong"}]

NoForm == [method |-> "", grant_type |-> "", code |-> "",
           redirect_uri |-> "", client_id |-> "", client_secret |-> ""]

\* An *AuthorizationCode and the nil pointer.
NoAuthCode == [ClientID |-> "", RedirectURI |-> "", ExpiresAt |-> 0]

\* What a handler answers: http.Error with a message, or the token
\* response with the signed token, whose claims hold the client and the
\* second it was issued.
NoResponse == [status |-> 0, body |-> "", token |-> ""]
HttpError(message, status) ==
    [status |-> status, body |-> message, token |-> ""]
SignedString(clientID, now) == clientID \o "@" \o ToString(now)
TokenResponse(token) == [status |-> 200, body |-> "", token |-> token]

\* NewAuthServer: client1 registered, no code, no token, no request.
InitAuth ==
    /\ InitEventStore
    /\ NewWatchServer
    /\ storeRet = NoStoreCall
    /\ limits = NoLimits
    /\ NoFileWatcher /\ NoRunner /\ NoProxy
    /\ authCodes = <<>>
    /\ accessTokens = {}
    /\ tokenReqs = [r \in TokenRequests |->
                       [pc |-> "new", form |-> NoForm,
                        authCode |-> NoAuthCode, token |-> "",
                        resp |-> NoResponse]]
    /\ authNow = 0
    /\ authFatal = FALSE
    /\ codesMade = {}

\* authHandler, the user allows: a new random code is stored with the
\* client and the redirect URI of the authorization request.
authHandler(code) ==
    /\ ~authFatal
    /\ code \notin codesMade
    /\ authCodes' = MapPut(authCodes, code,
                           [ClientID |-> ClientID,
                            RedirectURI |-> RedirectURI,
                            ExpiresAt |-> authNow + CodeTTL])
    /\ codesMade' = codesMade \cup {code}
    /\ UNCHANGED <<accessTokens, tokenReqs, authNow, authFatal>>
    /\ UNCHANGED <<serviceVars, fileVars, runnerVars, proxyVars>>

\* Ten minutes pass.
AuthTick ==
    /\ ~authFatal
    /\ authNow < MaxAuthTime
    /\ authNow' = authNow + 1
    /\ UNCHANGED <<authCodes, accessTokens, tokenReqs, authFatal, codesMade>>
    /\ UNCHANGED <<serviceVars, fileVars, runnerVars, proxyVars>>

\* tokenHandler up to authCode, exists := s.authCodes[code]: the method,
\* the grant type and the client credentials are checked, then the code is
\* looked up.
tokenHandlerLookup(r, form) ==
    /\ ~authFatal
    /\ tokenReqs[r].pc = "new"
    /\ tokenReqs' = [tokenReqs EXCEPT ![r] =
          IF form.method # "POST"
          THEN [@ EXCEPT !.pc = "done", !.form = form,
                         !.resp = HttpError("Method not allowed", 405)]
          ELSE IF form.grant_type # "authorization_code"
          THEN [@ EXCEPT !.pc = "done", !.form = form,
                         !.resp = HttpError("Unsupported grant type", 400)]
          ELSE IF form.client_id # ClientID
                    \/ form.client_secret # ClientSecret
          THEN [@ EXCEPT !.pc = "done", !.form = form,
                         !.resp = HttpError("Invalid client credentials",
                                            401)]
          ELSE IF form.code \notin DOMAIN authCodes
          THEN [@ EXCEPT !.pc = "done", !.form = form,
                         !.resp = HttpError("Invalid authorization code",
                                            400)]
          ELSE [@ EXCEPT !.pc = "found", !.form = form,
                         !.authCode = authCodes[form.code]]]
    /\ UNCHANGED <<authCodes, accessTokens, authNow, authFatal, codesMade>>
    /\ UNCHANGED <<serviceVars, fileVars, runnerVars, proxyVars>>

\* tokenHandler from the expiry check to token.SignedString: an expired
\* code is deleted and refused, a wrong redirect URI or client refused;
\* else the token is signed.
tokenHandlerSign(r) ==
    /\ ~authFatal
    /\ tokenReqs[r].pc = "found"
    /\ IF authNow > tokenReqs[r].authCode.ExpiresAt
       THEN /\ authCodes' = MapDelete(authCodes, tokenReqs[r].form.code)
            /\ tokenReqs' = [tokenReqs EXCEPT
                  ![r].pc = "done",
                  ![r].resp = HttpError("Authorization code expired", 400)]
       ELSE /\ UNCHANGED authCodes
            /\ tokenReqs' = [tokenReqs EXCEPT ![r] =
                  IF @.authCode.RedirectURI # @.form.redirect_uri
                  THEN [@ EXCEPT !.pc = "done",
                           !.resp = HttpError("Redirect URI mismatch", 400)]
                  ELSE IF @.authCode.ClientID # @.form.client_id
                  THEN [@ EXCEPT !.pc = "done",
                           !.resp = HttpError("Client ID mismatch", 400)]
                  ELSE [@ EXCEPT !.pc = "signed",
                           !.token = SignedString(
                               tokenReqs[r].form.client_id, authNow)]]
    /\ UNCHANGED <<accessTokens, authNow, authFatal, codesMade>>
    /\ UNCHANGED <<serviceVars, fileVars, runnerVars, proxyVars>>

\* tokenHandler from s.accessTokens[accessToken] = cachedToken on: the
\* token is stored, the code deleted and the token response written.
tokenHandlerIssue(r) ==
    /\ ~authFatal
    /\ tokenReqs[r].pc = "signed"
    /\ accessTokens' = accessTokens \cup {tokenReqs[r].token}
    /\ authCodes' = MapDelete(authCodes, tokenReqs[r].form.code)
    /\ tokenReqs' = [tokenReqs EXCEPT
          ![r].pc = "done", ![r].resp = TokenResponse(tokenReqs[r].token)]
    /\ UNCHANGED <<authNow, authFatal, codesMade>>
    /\ UNCHANGED <<serviceVars, fileVars, runnerVars, proxyVars>>

\* Two handlers write the maps at the same time, which is a data race: the
\* runtime may detect it and end the process (fatal error: concurrent map
\* writes), or both writes may go through as tokenHandlerIssue has it.
tokenHandlerFatal(r) ==
    /\ ~authFatal
    /\ tokenReqs[r].pc = "signed"
    /\ \E other \in TokenRequests \ {r} : tokenReqs[other].pc = "signed"
    /\ authFatal' = TRUE
    /\ UNCHANGED <<authCodes, accessTokens, tokenReqs, authNow, codesMade>>
    /\ UNCHANGED <<serviceVars, fileVars, runnerVars, proxyVars>>

NextAuth ==
    \/ \E code \in CodeValues : authHandler(code)
    \/ AuthTick
    \/ \E r \in TokenRequests, form \in Forms : tokenHandlerLookup(r, form)
    \/ \E r \in TokenRequests : tokenHandlerSign(r)
    \/ \E r \in TokenRequests : tokenHandlerIssue(r)
    \/ \E r \in TokenRequests : tokenHandlerFatal(r)

SpecAuth == InitAuth /\ [][NextAuth]_vars

\* The requests that were answered with a token for code.
TokensFor(code) ==
    {r \in TokenRequests :
        /\ tokenReqs[r].form.code = code
        /\ tokenReqs[r].resp.token # ""}

\* The requests for code that carried the right method, grant type, client
\* credentials and redirect URI and were answered.
ExchangesOf(code) ==
    {r \in TokenRequests :
        /\ tokenReqs[r].pc = "done"
        /\ tokenReqs[r].form =
              [method |-> "POST", grant_type |-> "authorization_code",
               code |-> code, redirect_uri |-> RedirectURI,
               client_id |-> ClientID, client_secret |-> ClientSecret]}

\* C39: an authorization code is exchanged once: whatever the interleaving
\* of the token requests, at most one of them is answered with a token for
\* a code, and every other exchange of that code is refused as an invalid
\* authorization code.
C39_CodeIsSingleUse ==
    \A code \in CodeValues :
        /\ Cardinality(TokensFor(code)) <= 1
        /\ \A r \in TokensFor(code) :
              \A other \in ExchangesOf(code) \ {r} :
                  tokenReqs[other].resp =
                      HttpError("Invalid authorization code", 400)

=============================================================================
